---- MODULE Spec2Model ----
(***************************************************************************)
(* Model of the banked InvenSense IMU drivers Icm20649 and Icm20948        *)
(* (src/src/icm20649.cpp, src/src/icm20948.cpp).                           *)
(*                                                                         *)
(* One action per public operation.  An operation is translated as the set *)
(* of states it can end in: every bus transaction either is acknowledged   *)
(* (and then reaches the device) or fails (and then does not), so a        *)
(* function of the driver is an operator from a state to a set of states.  *)
(* `log` holds the bus transactions of the last public call, in order.     *)
(***************************************************************************)
EXTENDS Integers, Sequences, FiniteSets, TLC

VARIABLES chip, drv, dev, log, call, ret, sel, ncalls

vars == <<chip, drv, dev, log, call, ret, sel, ncalls>>

(* ------------------------------ bounds -------------------------------- *)
\* public calls in one run
MaxCalls == 2
\* transport failures inside one public call
MaxFaults == 1
\* Begin is one of the first MaxBeginAt public calls of a run
MaxBeginAt == 1

(* --------------------------- byte arithmetic -------------------------- *)
RECURSIVE BitAndN(_, _, _)
BitAndN(x, y, n) ==
  IF n = 0 THEN 0
  ELSE (x % 2) * (y % 2) + 2 * BitAndN(x \div 2, y \div 2, n - 1)

\* uint8_t a & b, a | b, a << n
BitAnd(x, y) == BitAndN(x % 256, y % 256, 8)
BitOr(x, y) == (x % 256) + (y % 256) - BitAnd(x, y)
Shl(x, n) == (x * (2 ^ n)) % 256
\* bits [hi:lo] of a byte
Field(x, hi, lo) == (x \div (2 ^ lo)) % (2 ^ (hi - lo + 1))

(* ------------------- register map (Icm20649.h / Icm20948.h) ----------- *)
Banks == 0 .. 3
BANK_0_ == 0
BANK_2_ == 2
BANK_3_ == 3

Bank0Regs == {"USER_CTRL", "PWR_MGMT_1", "INT_ENABLE_1", "WHO_AM_I",
              "INT_STATUS_1", "ACCEL_XOUT_H", "EXT_SLV_SENS_DATA_00"}
Bank2Regs == {"ODR_ALIGN_EN", "ACCEL_CONFIG", "GYRO_CONFIG_1",
              "ACCEL_SMPLRT_DIV_2", "GYRO_SMPLRT_DIV", "TEMP_CONFIG"}
Bank3Regs == {"I2C_MST_CTRL", "I2C_SLV0_ADDR", "I2C_SLV0_REG",
              "I2C_SLV0_CTRL", "I2C_SLV0_D0"}
\* registers whose written byte the device keeps
StoredRegs == {"USER_CTRL", "PWR_MGMT_1", "INT_ENABLE_1"} \cup Bank2Regs \cup Bank3Regs
RangeRegs == {"ACCEL_CONFIG", "GYRO_CONFIG_1"}
ConfigRegs == {"ACCEL_CONFIG", "GYRO_CONFIG_1", "TEMP_CONFIG",
               "ACCEL_SMPLRT_DIV_2", "GYRO_SMPLRT_DIV"}

\* the bank a register lives in (REG_BANK_SEL is visible in every bank)
RegBank(reg) ==
  IF reg \in Bank0Regs THEN BANK_0_
  ELSE IF reg \in Bank2Regs THEN BANK_2_
  ELSE BANK_3_

\* register values of the headers
PWR_MGMT_1_RESET_ == 128
PWR_MGMT_1_CLKSEL_AUTO_ == 1
USER_CTRL_I2C_IF_DIS_ == 16
USER_CTRL_I2C_MST_EN_ == 32
I2C_MST_CTRL_400_KHZ_CLK_ == 7
ODR_ALIGN_EN_ALIGN_ENABLE_ == 1
INT_ENABLE_1_INT_ENABLE_ == 1
INT_ENABLE_1_INT_DISABLE_ == 0
RAW_DATA_RDY_INT_ == 1
AK09916_I2C_ADDR_ == 12
I2C_SLV0_ADDR_READ_ == 128
I2C_SLV0_CTRL_EN_ == 128
AK09916_WIA2_ == 1
AK09916_ST1_ == 16
AK09916_CNTL2_ == 49
AK09916_CNTL3_ == 50
AK09916_CNTL3_SRST_ == 1
AK09916_CNTL2_CONT_MEAS_MODE1_ == 2
WHOAMI_ICM20649_ == 225
WHOAMI_AK09916_ == 9
\* sizeof(mag_data_), the length of the discard read of ConfigSrd
MagDataLen == 8

\* the identity byte Begin expects of the primary device

\* enumerations of the headers: the range codes are two bits wide, the DLPF
\* codes three
AccelRanges == 0 .. 3
GyroRanges == 0 .. 3
AccelDlpfs == {0, 1, 2, 3, 4, 5, 6, 7} \ {1}
GyroDlpfs == 0 .. 7
TempDlpfs == 0 .. 6
ACCEL_RANGE_16G_48 == 3
GYRO_RANGE_2000DPS_48 == 3
ACCEL_RANGE_30G_49 == 3
GYRO_RANGE_4000DPS_49 == 3
ACCEL_DLPF_BANDWIDTH_473HZ == 7
ACCEL_DLPF_BANDWIDTH_111HZ == 2
GYRO_DLPF_BANDWIDTH_361HZ == 7
GYRO_DLPF_BANDWIDTH_119HZ == 2
TEMP_DLPF_BANDWIDTH_7932HZ == 0


(* ------------------------------ the device ---------------------------- *)
\* register contents after power-up or a device reset
RegDefault(reg) ==
  IF reg \in RangeRegs THEN 1
  ELSE IF reg = "PWR_MGMT_1" THEN 65
  ELSE 0

\* a device reset: every register back to its default, bank 0 selected
DevReset(d) == [d EXCEPT !.bank = 0, !.regs = [r \in StoredRegs |-> RegDefault(r)]]

\* an acknowledged write of one byte.  REG_BANK_SEL holds the bank in bits
\* [5:4]; any other register is reached only while its bank is selected,
\* otherwise the byte lands in a register of the selected bank that is not
\* modelled.
DevWrite(d, reg, data) ==
  IF reg = "REG_BANK_SEL" THEN [d EXCEPT !.bank = Field(data, 5, 4)]
  ELSE IF d.bank # RegBank(reg) THEN d
  ELSE IF reg = "PWR_MGMT_1" /\ Field(data, 7, 7) = 1 THEN DevReset(d)
  ELSE IF reg \in StoredRegs THEN [d EXCEPT !.regs[reg] = data]
  ELSE d

\* length of data_buf_: Icm20948 reads 23 bytes into it (the samples, ST1,
\* the magnetometer bytes, a dummy byte and ST2), Icm20649 reads 14
BufLen48 == 23
BufLen49 == 14
\* bytes a read may find in a register the model does not hold
StrayBytes == {0, 255}
\* bytes the auxiliary master may have placed in EXT_SLV_SENS_DATA_00
ExtBytes == {AK09916_CNTL2_CONT_MEAS_MODE1_, WHOAMI_AK09916_}
\* identity bytes a device may answer with
WhoBytes == {WHOAMI_ICM20649_, 0}

Pad(bytes, n) == [i \in 1 .. n |-> IF i <= Len(bytes) THEN bytes[i] ELSE 0]

\* sample bursts starting at ACCEL_XOUT_H: accel, gyro, temperature, then
\* (Icm20948) ST1, the magnetometer bytes, a dummy byte and ST2
Bursts ==
  { <<127, 255, 128, 0, 0, 1, 0, 2, 255, 254, 16, 0, 1, 0,
      1, 3, 0, 255, 255, 0, 128, 0, 0>>,
    <<0, 5, 0, 6, 0, 7, 0, 8, 0, 9, 0, 10, 0, 21,
      1, 1, 0, 2, 0, 3, 0, 0, 8>>,
    <<0, 5, 0, 6, 0, 7, 0, 8, 0, 9, 0, 10, 0, 21,
      0, 4, 0, 5, 0, 6, 0, 0, 0>>,
    <<0, 5, 0, 6, 0, 7, 0, 8, 0, 9, 0, 10, 0, 21,
      0, 7, 0, 8, 0, 9, 0, 0, 8>> }

\* what an acknowledged read of `count` bytes starting at `reg` can return
DevReadSet(d, reg, count) ==
  IF d.bank # RegBank(reg) THEN {Pad(<<b>>, count) : b \in StrayBytes}
  ELSE IF reg = "WHO_AM_I" THEN {<<b>> : b \in WhoBytes}
  ELSE IF reg = "INT_STATUS_1" THEN {<<0>>, <<RAW_DATA_RDY_INT_>>}
  ELSE IF reg = "EXT_SLV_SENS_DATA_00" THEN {Pad(<<b>>, count) : b \in ExtBytes}
  ELSE IF reg = "ACCEL_XOUT_H" THEN {SubSeq(b, 1, count) : b \in Bursts}
  ELSE IF reg \in StoredRegs THEN {Pad(<<d.regs[reg]>>, count)}
  ELSE {Pad(<<>>, count)}

(* ------------------------ the transport (imu_) ------------------------ *)
\* one entry of the transaction log: a bus write "W" of `data`, a bus read
\* "R" of `data` bytes of which val is the first, "req", a request for bank
\* `data` (a call of SetBank or of a banked access), or "res", the result ok
\* of the bank selection of that request.  cb and bank are the cached and
\* the device's bank at that moment, sel whether a bank-select write has been
\* acknowledged before it.
Ev(s, k, reg, data, ok, val) ==
  [k |-> k, reg |-> reg, data |-> data, ok |-> ok, val |-> val,
   cb |-> s.drv.current_bank_, bank |-> s.dev.bank, sel |-> s.sel]

\* the outcomes of one transaction: acknowledged, or (within the bound) failed
Acks(s) == IF s.faults < MaxFaults THEN {TRUE, FALSE} ELSE {TRUE}

\* imu_.WriteRegister(reg, data, SPI_CLOCK_)
ImuWriteRegister(s, reg, data) ==
  { IF ok
    THEN [s EXCEPT !.dev = DevWrite(s.dev, reg, data),
                   !.log = Append(@, Ev(s, "W", reg, data, TRUE, data)),
                   !.sel = @ \/ reg = "REG_BANK_SEL",
                   !.ret = TRUE]
    ELSE [s EXCEPT !.log = Append(@, Ev(s, "W", reg, data, FALSE, data)),
                   !.faults = @ + 1,
                   !.ret = FALSE] : ok \in Acks(s) }

\* imu_.ReadRegisters(reg, count, SPI_CLOCK_, data): on success rd holds the
\* bytes read, on failure the destination is not written
ImuReadRegisters(s, reg, count) ==
  { IF o[1]
    THEN [s EXCEPT !.rd = o[2],
                   !.log = Append(@, Ev(s, "R", reg, count, TRUE, o[2][1])),
                   !.ret = TRUE]
    ELSE [s EXCEPT !.log = Append(@, Ev(s, "R", reg, count, FALSE, 0)),
                   !.faults = @ + 1,
                   !.ret = FALSE] :
    o \in { <<ok, IF ok THEN bytes ELSE <<>> >> :
            ok \in Acks(s), bytes \in DevReadSet(s.dev, reg, count) } }

(* --------------------------- sequencing ------------------------------- *)
\* A function body is a chain of stages S1, S2, ...: each stage takes every
\* state of the stage before it that has not returned (done = FALSE) through
\* the next statement.  ret is the result of the last call made.
\*
\* if (!call) return false;
Chk(S) == { IF t.ret THEN t ELSE [t EXCEPT !.done = TRUE] : t \in S }
\* return b;
Ret(t, b) == [t EXCEPT !.ret = b, !.done = TRUE]
\* the states a function hands back to its caller; one that reached the end
\* of the body returns b
Returned(S, b) == { [t EXCEPT !.ret = IF t.done THEN t.ret ELSE b, !.done = FALSE] : t \in S }
\* ReadRegisters(..., data_buf_): the bytes read replace the first bytes of
\* data_buf_
ToBuf(S) ==
  { IF t.ret
    THEN [t EXCEPT !.drv.data_buf_ =
            [i \in 1 .. Len(@) |-> IF i <= Len(t.rd) THEN t.rd[i] ELSE @[i]]]
    ELSE t : t \in S }
\* ReadRegisters(..., &who_am_i_)
ToWhoAmI(S) == { IF t.ret THEN [t EXCEPT !.drv.who_am_i_ = t.rd[1]] ELSE t : t \in S }
\* the log's record of a request for `bank`, and of how its selection ended
BankReq(s, bank) ==
  [s EXCEPT !.log = Append(@, Ev(s, "req", "REG_BANK_SEL", bank, TRUE, bank))]
BankRes(S, bank) ==
  { [t EXCEPT !.log = Append(@, Ev(t, "res", "REG_BANK_SEL", bank, t.ret, bank))] : t \in S }
\* an identity check that accepts any byte
CheckWhoAmIOff(t, expected) == t
\* if (who_am_i_ != expected) return false;
CheckWhoAmI(t, expected) == IF t.drv.who_am_i_ # expected THEN Ret(t, FALSE) ELSE t

(* -------------------- arithmetic shared by both drivers --------------- *)
\* the int16_t held after  static_cast<int16_t>(hi) << 8 | lo
ToInt16(hi, lo) ==
  LET u == hi * 256 + lo IN IF u >= 32768 THEN u - 65536 ELSE u

\* the range patch with the range left unshifted
PatchRangeUnshifted(b, range) == BitOr(BitAnd(b, 249), range)
\* data_buf_[0] &= ~(0x06); data_buf_[0] |= (range << 1);
PatchRange(b, range) == BitOr(BitAnd(b, 249), Shl(range, 1))
\* the DLPF patch without data_buf_[0] |= 0x01
PatchDlpfNoEnable(b, dlpf) == BitOr(BitAnd(b, 199), Shl(dlpf, 3))
\* data_buf_[0] |= 0x01; data_buf_[0] &= 0xC7; data_buf_[0] |= (dlpf << 3);
PatchDlpf(b, dlpf) == BitOr(BitAnd(BitOr(b, 1), 199), Shl(dlpf, 3))

\* a scale is held as its numerator n, standing for n / 32767.5f
\* the Icm20649 table with the nominal 30 in the place of 32
AccelScale49Nominal(range) ==
  CASE range = 0 -> 4 [] range = 1 -> 8 [] range = 2 -> 16 [] OTHER -> 30
AccelScale49(range) ==
  CASE range = 0 -> 4 [] range = 1 -> 8 [] range = 2 -> 16 [] OTHER -> 32
GyroScale49(range) ==
  CASE range = 0 -> 500 [] range = 1 -> 1000 [] range = 2 -> 2000 [] OTHER -> 4000
AccelScale48(range) ==
  CASE range = 0 -> 2 [] range = 1 -> 4 [] range = 2 -> 8 [] OTHER -> 16
GyroScale48(range) ==
  CASE range = 0 -> 250 [] range = 1 -> 500 [] range = 2 -> 1000 [] OTHER -> 2000

(* ============================== Icm20649 ============================== *)
WriteRegister49(s, reg, data) == ImuWriteRegister(s, reg, data)
ReadRegisters49(s, reg, count) == ImuReadRegisters(s, reg, count)

\* a bank selection that writes the bank-select register on every request
SelectBankAlways(s, bank) ==
  { IF t.ret THEN [t EXCEPT !.drv.current_bank_ = bank] ELSE t :
      t \in ImuWriteRegister(s, "REG_BANK_SEL", Shl(bank, 4)) }

\* if (bank != current_bank_) { if (write) { current_bank_ = bank; return true; }
\*   else return false; } else return true;
SelectBank49(s, bank) ==
  IF bank # s.drv.current_bank_
  THEN { IF t.ret THEN [t EXCEPT !.drv.current_bank_ = bank] ELSE t :
           t \in WriteRegister49(s, "REG_BANK_SEL", Shl(bank, 4)) }
  ELSE { [s EXCEPT !.ret = TRUE] }

SetBank(s, bank) == BankRes(SelectBank49(BankReq(s, bank), bank), bank)

ConfigAccelRange49(s, range) ==
  LET S1 == Chk(SetBank(s, 2))
      S2 == { IF t.done THEN t
              ELSE IF range \notin AccelRanges THEN Ret(t, FALSE)
              ELSE [t EXCEPT !.drv.requested_accel_range_ = range,
                             !.drv.requested_accel_scale_ = AccelScale49(range)] : t \in S1 }
      S3 == UNION { IF t.done THEN {t}
                    ELSE ToBuf(ReadRegisters49(t, "ACCEL_CONFIG", 1)) : t \in S2 }
      S4 == { IF t.done THEN t
              ELSE [t EXCEPT !.drv.data_buf_[1] =
                      PatchRange(@, t.drv.requested_accel_range_)] : t \in S3 }
      S5 == UNION { IF t.done THEN {t}
                    ELSE Chk(WriteRegister49(t, "ACCEL_CONFIG", t.drv.data_buf_[1])) : t \in S4 }
      S6 == { IF t.done THEN t
              ELSE [t EXCEPT !.drv.accel_range_ = t.drv.requested_accel_range_,
                             !.drv.accel_scale_ = t.drv.requested_accel_scale_] : t \in S5 }
  IN Returned(S6, TRUE)

ConfigGyroRange49(s, range) ==
  LET S1 == Chk(SetBank(s, 2))
      S2 == { IF t.done THEN t
              ELSE IF range \notin GyroRanges THEN Ret(t, FALSE)
              ELSE [t EXCEPT !.drv.requested_gyro_range_ = range,
                             !.drv.requested_gyro_scale_ = GyroScale49(range)] : t \in S1 }
      S3 == UNION { IF t.done THEN {t}
                    ELSE ToBuf(ReadRegisters49(t, "GYRO_CONFIG_1", 1)) : t \in S2 }
      S4 == { IF t.done THEN t
              ELSE [t EXCEPT !.drv.data_buf_[1] =
                      PatchRange(@, t.drv.requested_accel_range_)] : t \in S3 }
      S5 == UNION { IF t.done THEN {t}
                    ELSE Chk(WriteRegister49(t, "GYRO_CONFIG_1", t.drv.data_buf_[1])) : t \in S4 }
      S6 == { IF t.done THEN t
              ELSE [t EXCEPT !.drv.gyro_range_ = t.drv.requested_gyro_range_,
                             !.drv.gyro_scale_ = t.drv.requested_gyro_scale_] : t \in S5 }
  IN Returned(S6, TRUE)

\* ConfigSrd of the Icm20649 recording srd_ before the writes
ConfigSrd49Eager(s, srd) ==
  LET S0 == { [s EXCEPT !.drv.srd_ = srd] }
      S1 == UNION { Chk(SetBank(t, 2)) : t \in S0 }
      S2 == UNION { IF t.done THEN {t}
                    ELSE Chk(WriteRegister49(t, "ACCEL_SMPLRT_DIV_2", srd)) : t \in S1 }
      S3 == UNION { IF t.done THEN {t}
                    ELSE Chk(WriteRegister49(t, "GYRO_SMPLRT_DIV", srd)) : t \in S2 }
  IN Returned(S3, TRUE)

ConfigSrd49(s, srd) ==
  LET S1 == Chk(SetBank(s, 2))
      S2 == UNION { IF t.done THEN {t}
                    ELSE Chk(WriteRegister49(t, "ACCEL_SMPLRT_DIV_2", srd)) : t \in S1 }
      S3 == UNION { IF t.done THEN {t}
                    ELSE Chk(WriteRegister49(t, "GYRO_SMPLRT_DIV", srd)) : t \in S2 }
      S4 == { IF t.done THEN t ELSE [t EXCEPT !.drv.srd_ = srd] : t \in S3 }
  IN Returned(S4, TRUE)

ConfigAccelDlpfBandwidth49(s, dlpf) ==
  LET S1 == Chk(SetBank(s, 2))
      S2 == { IF t.done THEN t
              ELSE IF dlpf \notin AccelDlpfs THEN Ret(t, FALSE)
              ELSE [t EXCEPT !.drv.accel_requested_dlpf_ = dlpf] : t \in S1 }
      S3 == UNION { IF t.done THEN {t}
                    ELSE ToBuf(ReadRegisters49(t, "ACCEL_CONFIG", 1)) : t \in S2 }
      S4 == { IF t.done THEN t
              ELSE [t EXCEPT !.drv.data_buf_[1] =
                      PatchDlpf(@, t.drv.accel_requested_dlpf_)] : t \in S3 }
      S5 == UNION { IF t.done THEN {t}
                    ELSE Chk(WriteRegister49(t, "ACCEL_CONFIG", t.drv.data_buf_[1])) : t \in S4 }
      S6 == { IF t.done THEN t
              ELSE [t EXCEPT !.drv.accel_dlpf_bandwidth_ = t.drv.accel_requested_dlpf_] :
              t \in S5 }
  IN Returned(S6, TRUE)

ConfigGyroDlpfBandwidth49(s, dlpf) ==
  LET S1 == Chk(SetBank(s, 2))
      S2 == { IF t.done THEN t
              ELSE IF dlpf \notin GyroDlpfs THEN Ret(t, FALSE)
              ELSE [t EXCEPT !.drv.gyro_requested_dlpf_ = dlpf] : t \in S1 }
      S3 == UNION { IF t.done THEN {t}
                    ELSE ToBuf(ReadRegisters49(t, "GYRO_CONFIG_1", Len(t.drv.data_buf_))) : t \in S2 }
      S4 == { IF t.done THEN t
              ELSE [t EXCEPT !.drv.data_buf_[1] =
                      PatchDlpf(@, t.drv.gyro_requested_dlpf_)] : t \in S3 }
      S5 == UNION { IF t.done THEN {t}
                    ELSE Chk(WriteRegister49(t, "GYRO_CONFIG_1", t.drv.data_buf_[1])) : t \in S4 }
      S6 == { IF t.done THEN t
              ELSE [t EXCEPT !.drv.gyro_dlpf_bandwidth_ = t.drv.gyro_requested_dlpf_] :
              t \in S5 }
  IN Returned(S6, TRUE)

EnableDrdyInt49(s) ==
  LET S1 == Chk(SetBank(s, 0))
      S2 == UNION { IF t.done THEN {t}
                    ELSE Chk(WriteRegister49(t, "INT_ENABLE_1", INT_ENABLE_1_INT_ENABLE_)) :
                    t \in S1 }
  IN Returned(S2, TRUE)

DisableDrdyInt49(s) ==
  LET S1 == Chk(SetBank(s, 0))
      S2 == UNION { IF t.done THEN {t}
                    ELSE Chk(WriteRegister49(t, "INT_ENABLE_1", INT_ENABLE_1_INT_DISABLE_)) :
                    t \in S1 }
  IN Returned(S2, TRUE)

\* void: the call is recorded as returning TRUE
Reset49(s) ==
  LET S1 == SetBank(s, 0)
      S2 == UNION { WriteRegister49(t, "PWR_MGMT_1", PWR_MGMT_1_RESET_) : t \in S1 }
  IN Returned(S2, TRUE)

\* the unpacking and scaling of Read(); b[i + 1] is data_buf_[i], and a
\* scaled value is held as count * scale numerator * sign, without the
\* constant factors
Unpack49(s) ==
  LET b == s.drv.data_buf_
      a == <<ToInt16(b[1], b[2]), ToInt16(b[3], b[4]), ToInt16(b[5], b[6])>>
      g == <<ToInt16(b[7], b[8]), ToInt16(b[9], b[10]), ToInt16(b[11], b[12])>>
      tc == ToInt16(b[13], b[14])
      as == s.drv.accel_scale_
      gs == s.drv.gyro_scale_
  IN [s EXCEPT !.drv.accel_cnts_ = a, !.drv.gyro_cnts_ = g, !.drv.temp_cnts_ = tc,
               !.drv.accel_ = <<a[1] * as, a[2] * as * (-1), a[3] * as * (-1)>>,
               !.drv.temp_ = tc - 21,
               !.drv.gyro_ = <<g[1] * gs, g[2] * gs * (-1), g[3] * gs * (-1)>>]

\* Read() of the Icm20649 without the return on a clear raw-data-ready bit
Read49Eager(s) ==
  LET S1 == SetBank(s, 0)
      S2 == { [t EXCEPT !.drv.new_imu_data_ = FALSE] : t \in S1 }
      S3 == UNION { Chk(ToBuf(ReadRegisters49(t, "INT_STATUS_1", 1))) : t \in S2 }
      S4 == { IF t.done THEN t
              ELSE [t EXCEPT !.drv.new_imu_data_ =
                      BitAnd(t.drv.data_buf_[1], RAW_DATA_RDY_INT_) # 0] : t \in S3 }
      S6 == UNION { IF t.done THEN {t}
                    ELSE ToBuf(ReadRegisters49(t, "ACCEL_XOUT_H", 14)) : t \in S4 }
      S7 == { IF t.done THEN t ELSE Unpack49(t) : t \in S6 }
  IN Returned(S7, TRUE)

Read49(s) ==
  LET S1 == SetBank(s, 0)
      S2 == { [t EXCEPT !.drv.new_imu_data_ = FALSE] : t \in S1 }
      S3 == UNION { Chk(ToBuf(ReadRegisters49(t, "INT_STATUS_1", 1))) : t \in S2 }
      S4 == { IF t.done THEN t
              ELSE [t EXCEPT !.drv.new_imu_data_ =
                      BitAnd(t.drv.data_buf_[1], RAW_DATA_RDY_INT_) # 0] : t \in S3 }
      S5 == { IF t.done THEN t
              ELSE IF ~t.drv.new_imu_data_ THEN Ret(t, FALSE) ELSE t : t \in S4 }
      S6 == UNION { IF t.done THEN {t}
                    ELSE ToBuf(ReadRegisters49(t, "ACCEL_XOUT_H", 14)) : t \in S5 }
      S7 == { IF t.done THEN t ELSE Unpack49(t) : t \in S6 }
  IN Returned(S7, TRUE)

Begin49(s) ==
  LET S1 == IF s.drv.iface_ = "SPI"
            THEN WriteRegister49(s, "USER_CTRL", USER_CTRL_I2C_IF_DIS_)
            ELSE {s}
      S2 == UNION { Chk(SetBank(t, 0)) : t \in S1 }
      S3 == UNION { IF t.done THEN {t}
                    ELSE Chk(WriteRegister49(t, "PWR_MGMT_1", PWR_MGMT_1_CLKSEL_AUTO_)) :
                    t \in S2 }
      S4 == UNION { IF t.done THEN {t}
                    ELSE Chk(ToWhoAmI(ReadRegisters49(t, "WHO_AM_I", 1))) : t \in S3 }
      S5 == { IF t.done THEN t ELSE CheckWhoAmI(t, WHOAMI_ICM20649_) : t \in S4 }
      S6 == UNION { IF t.done THEN {t} ELSE SetBank(t, 2) : t \in S5 }
      S7 == UNION { IF t.done THEN {t}
                    ELSE Chk(WriteRegister49(t, "ODR_ALIGN_EN", ODR_ALIGN_EN_ALIGN_ENABLE_)) :
                    t \in S6 }
      S8 == UNION { IF t.done THEN {t}
                    ELSE Chk(ConfigAccelRange49(t, ACCEL_RANGE_30G_49)) : t \in S7 }
      S9 == UNION { IF t.done THEN {t}
                    ELSE Chk(ConfigGyroRange49(t, GYRO_RANGE_4000DPS_49)) : t \in S8 }
      S10 == UNION { IF t.done THEN {t}
                     ELSE Chk(ConfigAccelDlpfBandwidth49(t, ACCEL_DLPF_BANDWIDTH_111HZ)) :
                     t \in S9 }
      S11 == UNION { IF t.done THEN {t}
                     ELSE Chk(ConfigGyroDlpfBandwidth49(t, GYRO_DLPF_BANDWIDTH_119HZ)) :
                     t \in S10 }
      S12 == UNION { IF t.done THEN {t} ELSE Chk(ConfigSrd49(t, 0)) : t \in S11 }
  IN Returned(S12, TRUE)

(* ============================== Icm20948 ============================== *)
\* a bank selection that caches the requested bank whether or not the
\* bank-select write was acknowledged
SelectBankOptimistic(s, bank) ==
  IF bank # s.drv.current_bank_
  THEN { [t EXCEPT !.drv.current_bank_ = bank] :
           t \in ImuWriteRegister(s, "REG_BANK_SEL", Shl(bank, 4)) }
  ELSE { [s EXCEPT !.ret = TRUE] }

\* the head of the banked accesses:
\* if (bank != current_bank_) { if (!write) return false; current_bank_ = bank; }
SelectBank48(s, bank) ==
  IF bank # s.drv.current_bank_
  THEN { IF t.ret THEN [t EXCEPT !.drv.current_bank_ = bank] ELSE t :
           t \in ImuWriteRegister(s, "REG_BANK_SEL", Shl(bank, 4)) }
  ELSE { [s EXCEPT !.ret = TRUE] }

WriteRegister48(s, bank, reg, data) ==
  UNION { IF ~t.ret THEN {t} ELSE ImuWriteRegister(t, reg, data) :
          t \in BankRes(SelectBank48(BankReq(s, bank), bank), bank) }

ReadRegisters48(s, bank, reg, count) ==
  UNION { IF ~t.ret THEN {t} ELSE ImuReadRegisters(t, reg, count) :
          t \in BankRes(SelectBank48(BankReq(s, bank), bank), bank) }

\* on success rd holds the bytes read for the caller's destination
ReadAk09916Registers(s, reg, count) ==
  LET S1 == Chk(WriteRegister48(s, BANK_3_, "I2C_SLV0_ADDR",
                                BitOr(AK09916_I2C_ADDR_, I2C_SLV0_ADDR_READ_)))
      S2 == UNION { IF t.done THEN {t}
                    ELSE Chk(WriteRegister48(t, BANK_3_, "I2C_SLV0_REG", reg)) : t \in S1 }
      S3 == UNION { IF t.done THEN {t}
                    ELSE Chk(WriteRegister48(t, BANK_3_, "I2C_SLV0_CTRL",
                                             BitOr(I2C_SLV0_CTRL_EN_, count))) : t \in S2 }
      S4 == UNION { IF t.done THEN {t}
                    ELSE Chk(ReadRegisters48(t, BANK_0_, "EXT_SLV_SENS_DATA_00", count)) :
                    t \in S3 }
  IN Returned(S4, TRUE)

\* WriteAk09916Register without the comparison of the byte read back
WriteAk09916Unverified(s, reg, data) ==
  LET S1 == Chk(WriteRegister48(s, BANK_3_, "I2C_SLV0_ADDR", AK09916_I2C_ADDR_))
      S2 == UNION { IF t.done THEN {t}
                    ELSE Chk(WriteRegister48(t, BANK_3_, "I2C_SLV0_REG", reg)) : t \in S1 }
      S3 == UNION { IF t.done THEN {t}
                    ELSE Chk(WriteRegister48(t, BANK_3_, "I2C_SLV0_D0", data)) : t \in S2 }
      S4 == UNION { IF t.done THEN {t}
                    ELSE Chk(WriteRegister48(t, BANK_3_, "I2C_SLV0_CTRL",
                                             BitOr(I2C_SLV0_CTRL_EN_, 1))) : t \in S3 }
      S5 == UNION { IF t.done THEN {t}
                    ELSE Chk(ReadAk09916Registers(t, reg, 1)) : t \in S4 }
  IN Returned(S5, TRUE)

WriteAk09916Register(s, reg, data) ==
  LET S1 == Chk(WriteRegister48(s, BANK_3_, "I2C_SLV0_ADDR", AK09916_I2C_ADDR_))
      S2 == UNION { IF t.done THEN {t}
                    ELSE Chk(WriteRegister48(t, BANK_3_, "I2C_SLV0_REG", reg)) : t \in S1 }
      S3 == UNION { IF t.done THEN {t}
                    ELSE Chk(WriteRegister48(t, BANK_3_, "I2C_SLV0_D0", data)) : t \in S2 }
      S4 == UNION { IF t.done THEN {t}
                    ELSE Chk(WriteRegister48(t, BANK_3_, "I2C_SLV0_CTRL",
                                             BitOr(I2C_SLV0_CTRL_EN_, 1))) : t \in S3 }
      S5 == UNION { IF t.done THEN {t}
                    ELSE Chk(ReadAk09916Registers(t, reg, 1)) : t \in S4 }
      S6 == { IF t.done THEN t ELSE Ret(t, data = t.rd[1]) : t \in S5 }
  IN Returned(S6, TRUE)

EnableDrdyInt48(s) ==
  Returned(Chk(WriteRegister48(s, BANK_0_, "INT_ENABLE_1", INT_ENABLE_1_INT_ENABLE_)), TRUE)

DisableDrdyInt48(s) ==
  Returned(Chk(WriteRegister48(s, BANK_0_, "INT_ENABLE_1", INT_ENABLE_1_INT_DISABLE_)), TRUE)

ConfigAccelRange48(s, range) ==
  LET S1 == { IF range \notin AccelRanges THEN Ret(s, FALSE)
              ELSE [s EXCEPT !.drv.requested_accel_range_ = range,
                             !.drv.requested_accel_scale_ = AccelScale48(range)] }
      S2 == UNION { IF t.done THEN {t}
                    ELSE ToBuf(ReadRegisters48(t, BANK_2_, "ACCEL_CONFIG", 1)) : t \in S1 }
      S3 == { IF t.done THEN t
              ELSE [t EXCEPT !.drv.data_buf_[1] =
                      PatchRange(@, t.drv.requested_accel_range_)] : t \in S2 }
      S4 == UNION { IF t.done THEN {t}
                    ELSE Chk(WriteRegister48(t, BANK_2_, "ACCEL_CONFIG", t.drv.data_buf_[1])) :
                    t \in S3 }
      S5 == { IF t.done THEN t
              ELSE [t EXCEPT !.drv.accel_range_ = t.drv.requested_accel_range_,
                             !.drv.accel_scale_ = t.drv.requested_accel_scale_] : t \in S4 }
  IN Returned(S5, TRUE)

ConfigGyroRange48(s, range) ==
  LET S1 == { IF range \notin GyroRanges THEN Ret(s, FALSE)
              ELSE [s EXCEPT !.drv.requested_gyro_range_ = range,
                             !.drv.requested_gyro_scale_ = GyroScale48(range)] }
      S2 == UNION { IF t.done THEN {t}
                    ELSE ToBuf(ReadRegisters48(t, BANK_2_, "GYRO_CONFIG_1", 1)) : t \in S1 }
      S3 == { IF t.done THEN t
              ELSE [t EXCEPT !.drv.data_buf_[1] =
                      PatchRange(@, t.drv.requested_accel_range_)] : t \in S2 }
      S4 == UNION { IF t.done THEN {t}
                    ELSE Chk(WriteRegister48(t, BANK_2_, "GYRO_CONFIG_1", t.drv.data_buf_[1])) :
                    t \in S3 }
      S5 == { IF t.done THEN t
              ELSE [t EXCEPT !.drv.gyro_range_ = t.drv.requested_gyro_range_,
                             !.drv.gyro_scale_ = t.drv.requested_gyro_scale_] : t \in S4 }
  IN Returned(S5, TRUE)

\* the destination of the discard read is mag_data_, which nothing reads
ConfigSrd48(s, srd) ==
  LET S1 == Chk(WriteRegister48(s, BANK_2_, "ACCEL_SMPLRT_DIV_2", srd))
      S2 == UNION { IF t.done THEN {t}
                    ELSE Chk(WriteRegister48(t, BANK_2_, "GYRO_SMPLRT_DIV", srd)) : t \in S1 }
      S3 == UNION { IF t.done THEN {t}
                    ELSE Chk(WriteAk09916Register(t, AK09916_CNTL2_,
                                                  AK09916_CNTL2_CONT_MEAS_MODE1_)) : t \in S2 }
      S4 == UNION { IF t.done THEN {t}
                    ELSE Chk(ReadAk09916Registers(t, AK09916_ST1_, MagDataLen)) : t \in S3 }
      S5 == { IF t.done THEN t ELSE [t EXCEPT !.drv.srd_ = srd] : t \in S4 }
  IN Returned(S5, TRUE)

ConfigAccelDlpfBandwidth48(s, dlpf) ==
  LET S1 == { IF dlpf \notin AccelDlpfs THEN Ret(s, FALSE)
              ELSE [s EXCEPT !.drv.accel_requested_dlpf_ = dlpf] }
      S2 == UNION { IF t.done THEN {t}
                    ELSE ToBuf(ReadRegisters48(t, BANK_2_, "ACCEL_CONFIG", 1)) : t \in S1 }
      S3 == { IF t.done THEN t
              ELSE [t EXCEPT !.drv.data_buf_[1] =
                      PatchDlpf(@, t.drv.accel_requested_dlpf_)] : t \in S2 }
      S4 == UNION { IF t.done THEN {t}
                    ELSE Chk(WriteRegister48(t, BANK_2_, "ACCEL_CONFIG", t.drv.data_buf_[1])) :
                    t \in S3 }
      S5 == { IF t.done THEN t
              ELSE [t EXCEPT !.drv.accel_dlpf_bandwidth_ = t.drv.accel_requested_dlpf_] :
              t \in S4 }
  IN Returned(S5, TRUE)

ConfigGyroDlpfBandwidth48(s, dlpf) ==
  LET S1 == { IF dlpf \notin GyroDlpfs THEN Ret(s, FALSE)
              ELSE [s EXCEPT !.drv.gyro_requested_dlpf_ = dlpf] }
      S2 == UNION { IF t.done THEN {t}
                    ELSE ToBuf(ReadRegisters48(t, BANK_2_, "GYRO_CONFIG_1",
                                               Len(t.drv.data_buf_))) :
                    t \in S1 }
      S3 == { IF t.done THEN t
              ELSE [t EXCEPT !.drv.data_buf_[1] =
                      PatchDlpf(@, t.drv.gyro_requested_dlpf_)] : t \in S2 }
      S4 == UNION { IF t.done THEN {t}
                    ELSE Chk(WriteRegister48(t, BANK_2_, "GYRO_CONFIG_1", t.drv.data_buf_[1])) :
                    t \in S3 }
      S5 == { IF t.done THEN t
              ELSE [t EXCEPT !.drv.gyro_dlpf_bandwidth_ = t.drv.gyro_requested_dlpf_] :
              t \in S4 }
  IN Returned(S5, TRUE)

\* a temperature DLPF configuration that commits the value when it stages it
ConfigTempDlpfEager(s, dlpf) ==
  LET S1 == { IF dlpf \notin TempDlpfs THEN Ret(s, FALSE)
              ELSE [s EXCEPT !.drv.temp_requested_dlpf_ = dlpf,
                             !.drv.temp_dlpf_bandwidth_ = dlpf] }
      S2 == UNION { IF t.done THEN {t}
                    ELSE Chk(WriteRegister48(t, BANK_2_, "TEMP_CONFIG",
                                             t.drv.temp_requested_dlpf_)) : t \in S1 }
  IN Returned(S2, TRUE)

ConfigTempDlpfBandwidth48(s, dlpf) ==
  LET S1 == { IF dlpf \notin TempDlpfs THEN Ret(s, FALSE)
              ELSE [s EXCEPT !.drv.temp_requested_dlpf_ = dlpf] }
      S2 == UNION { IF t.done THEN {t}
                    ELSE Chk(WriteRegister48(t, BANK_2_, "TEMP_CONFIG",
                                             t.drv.temp_requested_dlpf_)) : t \in S1 }
      S3 == { IF t.done THEN t
              ELSE [t EXCEPT !.drv.temp_dlpf_bandwidth_ = t.drv.temp_requested_dlpf_] :
              t \in S2 }
  IN Returned(S3, TRUE)

AK09916_ST1_DRDY_ == 1
AK09916_ST2_HOFL_ == 8

\* the unpacking of the Icm20948 with the axis table of the Icm20649
Unpack48AsIcm20649(s) == Unpack49(s)

\* the unpacking and scaling of Read(); b[i + 1] is data_buf_[i]
Unpack48(s) ==
  LET b == s.drv.data_buf_
      a == <<ToInt16(b[1], b[2]), ToInt16(b[3], b[4]), ToInt16(b[5], b[6])>>
      g == <<ToInt16(b[7], b[8]), ToInt16(b[9], b[10]), ToInt16(b[11], b[12])>>
      tc == ToInt16(b[13], b[14])
      m == <<ToInt16(b[17], b[16]), ToInt16(b[19], b[18]), ToInt16(b[21], b[20])>>
      ovf == BitAnd(b[23], AK09916_ST2_HOFL_) # 0
      nm == IF ovf THEN FALSE ELSE BitAnd(b[15], AK09916_ST1_DRDY_) # 0
      as == s.drv.accel_scale_
      gs == s.drv.gyro_scale_
  IN [s EXCEPT !.drv.accel_cnts_ = a, !.drv.gyro_cnts_ = g, !.drv.temp_cnts_ = tc,
               !.drv.mag_cnts_ = m,
               !.drv.new_mag_data_ = nm,
               !.drv.mag_sensor_overflow_ = ovf,
               !.drv.accel_ = <<a[2] * as, a[1] * as, a[3] * as * (-1)>>,
               !.drv.temp_ = tc - 21,
               !.drv.gyro_ = <<g[2] * gs, g[1] * gs, g[3] * gs * (-1)>>,
               !.drv.mag_ = IF nm THEN <<(-1) * m[2], m[1], m[3]>> ELSE @]

Read48(s) ==
  LET S1 == { [s EXCEPT !.drv.new_imu_data_ = FALSE] }
      S2 == UNION { Chk(ToBuf(ReadRegisters48(t, BANK_0_, "INT_STATUS_1", 1))) : t \in S1 }
      S3 == { IF t.done THEN t
              ELSE [t EXCEPT !.drv.new_imu_data_ =
                      BitAnd(t.drv.data_buf_[1], RAW_DATA_RDY_INT_) # 0] : t \in S2 }
      S4 == { IF t.done THEN t
              ELSE IF ~t.drv.new_imu_data_ THEN Ret(t, FALSE) ELSE t : t \in S3 }
      S5 == UNION { IF t.done THEN {t}
                    ELSE ToBuf(ReadRegisters48(t, BANK_0_, "ACCEL_XOUT_H",
                                               Len(t.drv.data_buf_))) :
                    t \in S4 }
      S6 == { IF t.done THEN t ELSE Unpack48(t) : t \in S5 }
  IN Returned(S6, TRUE)

\* a Begin that does not select the clock source again after the reset
BeginClockSkipped(t) == {t}
\* the clock-source selection that follows the reset
BeginClock48(t) ==
  Chk(WriteRegister48(t, BANK_0_, "PWR_MGMT_1", PWR_MGMT_1_CLKSEL_AUTO_))

Begin48(s) ==
  LET S1 == IF s.drv.iface_ = "SPI"
            THEN WriteRegister48(s, BANK_0_, "USER_CTRL", USER_CTRL_I2C_IF_DIS_)
            ELSE {s}
      S2 == UNION { Chk(WriteRegister48(t, BANK_0_, "PWR_MGMT_1", PWR_MGMT_1_CLKSEL_AUTO_)) :
                    t \in S1 }
      S3 == UNION { IF t.done THEN {t}
                    ELSE Chk(WriteRegister48(t, BANK_0_, "USER_CTRL", USER_CTRL_I2C_MST_EN_)) :
                    t \in S2 }
      S4 == UNION { IF t.done THEN {t}
                    ELSE Chk(WriteRegister48(t, BANK_3_, "I2C_MST_CTRL",
                                             I2C_MST_CTRL_400_KHZ_CLK_)) : t \in S3 }
      S5 == UNION { IF t.done THEN {t}
                    ELSE WriteAk09916Register(t, AK09916_CNTL3_, AK09916_CNTL3_SRST_) :
                    t \in S4 }
      S6 == UNION { IF t.done THEN {t}
                    ELSE WriteRegister48(t, BANK_0_, "PWR_MGMT_1", PWR_MGMT_1_RESET_) :
                    t \in S5 }
      S7 == UNION { IF t.done \/ t.drv.iface_ # "SPI" THEN {t}
                    ELSE WriteRegister48(t, BANK_0_, "USER_CTRL", USER_CTRL_I2C_IF_DIS_) :
                    t \in S6 }
      S8 == UNION { IF t.done THEN {t} ELSE BeginClock48(t) : t \in S7 }
      S9 == UNION { IF t.done THEN {t}
                    ELSE Chk(ToWhoAmI(ReadRegisters48(t, BANK_0_, "WHO_AM_I", 1))) : t \in S8 }
      S10 == { IF t.done THEN t ELSE CheckWhoAmI(t, WHOAMI_ICM20649_) : t \in S9 }
      S11 == UNION { IF t.done THEN {t}
                     ELSE Chk(WriteRegister48(t, BANK_0_, "USER_CTRL", USER_CTRL_I2C_MST_EN_)) :
                     t \in S10 }
      S12 == UNION { IF t.done THEN {t}
                     ELSE Chk(WriteRegister48(t, BANK_3_, "I2C_MST_CTRL",
                                              I2C_MST_CTRL_400_KHZ_CLK_)) : t \in S11 }
      S13 == UNION { IF t.done THEN {t}
                     ELSE Chk(ToWhoAmI(ReadAk09916Registers(t, AK09916_WIA2_, 1))) :
                     t \in S12 }
      S14 == { IF t.done THEN t ELSE CheckWhoAmI(t, WHOAMI_AK09916_) : t \in S13 }
      S15 == UNION { IF t.done THEN {t}
                     ELSE Chk(WriteRegister48(t, BANK_2_, "ODR_ALIGN_EN",
                                              ODR_ALIGN_EN_ALIGN_ENABLE_)) : t \in S14 }
      S16 == UNION { IF t.done THEN {t}
                     ELSE Chk(ConfigAccelRange48(t, ACCEL_RANGE_16G_48)) : t \in S15 }
      S17 == UNION { IF t.done THEN {t}
                     ELSE Chk(ConfigGyroRange48(t, GYRO_RANGE_2000DPS_48)) : t \in S16 }
      S18 == UNION { IF t.done THEN {t}
                     ELSE Chk(ConfigAccelDlpfBandwidth48(t, ACCEL_DLPF_BANDWIDTH_473HZ)) :
                     t \in S17 }
      S19 == UNION { IF t.done THEN {t}
                     ELSE Chk(ConfigGyroDlpfBandwidth48(t, GYRO_DLPF_BANDWIDTH_361HZ)) :
                     t \in S18 }
      S20 == UNION { IF t.done THEN {t}
                     ELSE Chk(ConfigTempDlpfBandwidth48(t, TEMP_DLPF_BANDWIDTH_7932HZ)) :
                     t \in S19 }
      S21 == UNION { IF t.done THEN {t} ELSE Chk(ConfigSrd48(t, 0)) : t \in S20 }
  IN Returned(S21, TRUE)

(* ====================== state, calls and specification ================ *)
Chips == {"Icm20649", "Icm20948"}
\* what an uninitialised byte of data_buf_ may hold
UninitBytes == {0, 255}
\* what ACCEL_CONFIG and GYRO_CONFIG_1 may hold when the driver is created
CfgBytes == {255}
\* the bank the driver believes selected, and the bank the device has
\* selected, when the driver is created
InitBanks == {BANK_0_, BANK_2_}

\* arguments of the public calls: valid values and one outside the enumeration
RangeArgs == {1, 3, 4}
AccelDlpfArgs == {2, 7, 8}
GyroDlpfArgs == {2, 7, 8}
TempDlpfArgs == {0, 3, 7}
SrdArgs == {0, 9}

InitDrv(iface, bank, byte, len) ==
  [iface_ |-> iface, current_bank_ |-> bank, who_am_i_ |-> 0,
   data_buf_ |-> [i \in 1 .. len |-> byte],
   accel_range_ |-> 0, accel_scale_ |-> 0,
   requested_accel_range_ |-> 0, requested_accel_scale_ |-> 0,
   gyro_range_ |-> 0, gyro_scale_ |-> 0,
   requested_gyro_range_ |-> 0, requested_gyro_scale_ |-> 0,
   accel_dlpf_bandwidth_ |-> 0, accel_requested_dlpf_ |-> 0,
   gyro_dlpf_bandwidth_ |-> 0, gyro_requested_dlpf_ |-> 0,
   temp_dlpf_bandwidth_ |-> 0, temp_requested_dlpf_ |-> 0,
   srd_ |-> 0, new_imu_data_ |-> FALSE, new_mag_data_ |-> FALSE,
   mag_sensor_overflow_ |-> FALSE,
   accel_cnts_ |-> <<0, 0, 0>>, gyro_cnts_ |-> <<0, 0, 0>>, temp_cnts_ |-> 0,
   mag_cnts_ |-> <<0, 0, 0>>,
   accel_ |-> <<0, 0, 0>>, gyro_ |-> <<0, 0, 0>>, temp_ |-> 0, mag_ |-> <<0, 0, 0>>]

InitDev(bank, byte) ==
  [bank |-> bank,
   regs |-> [r \in StoredRegs |-> IF r \in RangeRegs THEN byte ELSE RegDefault(r)]]

Init ==
  /\ chip \in Chips
  /\ \E iface \in {"I2C", "SPI"}, cb \in InitBanks, u \in UninitBytes :
       drv = InitDrv(iface, cb, u, IF chip = "Icm20649" THEN BufLen49 ELSE BufLen48)
  /\ \E db \in InitBanks, c \in CfgBytes : dev = InitDev(db, c)
  /\ log = <<>>
  /\ call = [op |-> "new", arg |-> 0]
  /\ ret = TRUE
  /\ sel = FALSE
  /\ ncalls = 0

\* the state a public call starts from
Start == [drv |-> drv, dev |-> dev, log |-> <<>>, ret |-> TRUE, done |-> FALSE,
          rd |-> <<>>, faults |-> 0, sel |-> sel]

\* one public call `op(arg)` ending in one of the states of S
Do(op, arg, S) ==
  /\ ncalls < MaxCalls
  /\ \E t \in S :
       /\ drv' = t.drv
       /\ dev' = t.dev
       /\ log' = t.log
       /\ ret' = t.ret
       /\ sel' = t.sel
  /\ call' = [op |-> op, arg |-> arg]
  /\ ncalls' = ncalls + 1
  /\ UNCHANGED chip

Is49 == chip = "Icm20649"

\* a Config that also forgets the cached bank
ConfigForgetsBank ==
  \E iface \in {"I2C", "SPI"} :
    Do("Config", iface, {[Start EXCEPT !.drv.iface_ = iface, !.drv.current_bank_ = BANK_0_]})

Config ==
  \E iface \in {"I2C", "SPI"} :
    Do("Config", iface, {[Start EXCEPT !.drv.iface_ = iface]})

Begin ==
  /\ ncalls < MaxBeginAt
  /\ Do("Begin", 0, IF Is49 THEN Begin49(Start) ELSE Begin48(Start))

EnableDrdyInt ==
  Do("EnableDrdyInt", 0, IF Is49 THEN EnableDrdyInt49(Start) ELSE EnableDrdyInt48(Start))

DisableDrdyInt ==
  Do("DisableDrdyInt", 0, IF Is49 THEN DisableDrdyInt49(Start) ELSE DisableDrdyInt48(Start))

ConfigAccelRange ==
  \E r \in RangeArgs :
    Do("ConfigAccelRange", r,
       IF Is49 THEN ConfigAccelRange49(Start, r) ELSE ConfigAccelRange48(Start, r))

ConfigGyroRange ==
  \E r \in RangeArgs :
    Do("ConfigGyroRange", r,
       IF Is49 THEN ConfigGyroRange49(Start, r) ELSE ConfigGyroRange48(Start, r))

ConfigSrd ==
  \E v \in SrdArgs :
    Do("ConfigSrd", v, IF Is49 THEN ConfigSrd49(Start, v) ELSE ConfigSrd48(Start, v))

ConfigAccelDlpfBandwidth ==
  \E v \in AccelDlpfArgs :
    Do("ConfigAccelDlpfBandwidth", v,
       IF Is49 THEN ConfigAccelDlpfBandwidth49(Start, v)
       ELSE ConfigAccelDlpfBandwidth48(Start, v))

ConfigGyroDlpfBandwidth ==
  \E v \in GyroDlpfArgs :
    Do("ConfigGyroDlpfBandwidth", v,
       IF Is49 THEN ConfigGyroDlpfBandwidth49(Start, v)
       ELSE ConfigGyroDlpfBandwidth48(Start, v))

ConfigTempDlpfBandwidth ==
  /\ ~Is49
  /\ \E v \in TempDlpfArgs :
       Do("ConfigTempDlpfBandwidth", v, ConfigTempDlpfBandwidth48(Start, v))

Reset ==
  /\ Is49
  /\ Do("Reset", 0, Reset49(Start))

Read == Do("Read", 0, IF Is49 THEN Read49(Start) ELSE Read48(Start))

Next ==
  \/ Config
  \/ Begin
  \/ EnableDrdyInt
  \/ DisableDrdyInt
  \/ ConfigAccelRange
  \/ ConfigGyroRange
  \/ ConfigSrd
  \/ ConfigAccelDlpfBandwidth
  \/ ConfigGyroDlpfBandwidth
  \/ ConfigTempDlpfBandwidth
  \/ Reset
  \/ Read

Spec == Init /\ [][Next]_vars

(* ------------- the indirect AK09916 accesses taken alone -------------- *)
\* register and data byte of the two calls the driver makes (lines 67, 229)
AkWrites == { <<AK09916_CNTL3_, AK09916_CNTL3_SRST_>>,
              <<AK09916_CNTL2_, AK09916_CNTL2_CONT_MEAS_MODE1_>> }

\* one call of the private WriteAk09916Register
WriteAk ==
  /\ ~Is49
  /\ \E a \in AkWrites :
       Do("WriteAk09916Register", a, WriteAk09916Register(Start, a[1], a[2]))

NextAk == WriteAk

SpecAk == Init /\ [][NextAk]_vars

(* ------------------------------ MPU9250 ------------------------------- *)
\* begin(accelRange, gyroRange): for each name it compares with, the byte
\* written to ACCEL_CONFIG / GYRO_CONFIG and the numerator n of the scale
\* (_accelScale = G * n / 32767.5, _gyroScale = n / 32767.5)
MpuAccelRanges ==
  ("2G" :> <<0, 2>>) @@ ("4G" :> <<8, 4>>) @@ ("8G" :> <<16, 8>>) @@ ("16G" :> <<24, 16>>)
MpuGyroRanges ==
  ("250DPS" :> <<0, 250>>) @@ ("500DPS" :> <<8, 500>>) @@
  ("1000DPS" :> <<16, 1000>>) @@ ("2000DPS" :> <<24, 2000>>)

\* writeRegister(subAddress, data): the result of the transmission is not
\* looked at, so the byte reaches the register or it does not
MpuWriteRegister(m, reg, data) ==
  { [m EXCEPT !.dev.regs[reg] = data,
              !.log = Append(@, [k |-> "W", reg |-> reg, data |-> data, ok |-> TRUE])],
    [m EXCEPT !.log = Append(@, [k |-> "W", reg |-> reg, data |-> data, ok |-> FALSE])] }

MpuBegin(m, accelRange, gyroRange) ==
  LET S1 == MpuWriteRegister(m, "PWR_MGMNT_1", 1)
      S2 == UNION { IF accelRange \in DOMAIN MpuAccelRanges
                    THEN { [u EXCEPT !.drv._accelScale = MpuAccelRanges[accelRange][2]] :
                           u \in MpuWriteRegister(t, "ACCEL_CONFIG",
                                                  MpuAccelRanges[accelRange][1]) }
                    ELSE {t} : t \in S1 }
      S3 == UNION { IF gyroRange \in DOMAIN MpuGyroRanges
                    THEN { [u EXCEPT !.drv._gyroScale = MpuGyroRanges[gyroRange][2]] :
                           u \in MpuWriteRegister(t, "GYRO_CONFIG",
                                                  MpuGyroRanges[gyroRange][1]) }
                    ELSE {t} : t \in S2 }
  IN S3

\* readRegisters(subAddress, count, dest) of the output registers, `first`
\* being the index in dev.out of the register at subAddress: dest holds the
\* bytes received, or is left as it was (uninitialised) when none arrive
MpuReadRegisters(m, first, count) ==
  { [m EXCEPT !.rd = SubSeq(m.dev.out, first, first + count - 1),
              !.log = Append(@, [k |-> "R", reg |-> first, data |-> count, ok |-> TRUE])] }
  \cup
  { [m EXCEPT !.rd = [i \in 1 .. count |-> u],
              !.log = Append(@, [k |-> "R", reg |-> first, data |-> count, ok |-> FALSE])] :
    u \in UninitBytes }

\* getAccelCounts: the three uint16_t delivered through ax, ay, az
MpuGetAccelCounts(m) ==
  { [t EXCEPT !.ret = << (t.rd[1] * 256 + t.rd[2]) % 65536,
                         (t.rd[3] * 256 + t.rd[4]) % 65536,
                         (t.rd[5] * 256 + t.rd[6]) % 65536 >>] :
    t \in MpuReadRegisters(m, 1, 6) }

\* getAccel: ((int16_t) accel[i]) * _accelScale, the scale held as its numerator
MpuGetAccel(m) ==
  { [t EXCEPT !.ret = << ToInt16(0, t.ret[1]) * t.drv._accelScale,
                         ToInt16(0, t.ret[2]) * t.drv._accelScale,
                         ToInt16(0, t.ret[3]) * t.drv._accelScale >>] :
    t \in MpuGetAccelCounts(m) }

\* addresses of the first accelerometer and gyroscope output register
ACCEL_OUT == 59
GYRO_OUT == 67

\* setFilt(bandwidth, frequency): the DLPF codes of a known bandwidth name go
\* to ACCEL_CONFIG2 and CONFIG; SRD is a uint8_t assigned ISR / frequency - 1
\* computed in int, so it keeps the low eight bits
MpuSetFilt(m, bandwidth, frequency) ==
  LET dlpf == ("184HZ" :> 1) @@ ("92HZ" :> 2) @@ ("41HZ" :> 3) @@
              ("20HZ" :> 4) @@ ("10HZ" :> 5) @@ ("5HZ" :> 6)
      ISR == 1000
      SRD == ((ISR \div frequency) - 1) % 256
      S1 == IF bandwidth \in DOMAIN dlpf
            THEN UNION { MpuWriteRegister(t, "CONFIG", dlpf[bandwidth]) :
                         t \in MpuWriteRegister(m, "ACCEL_CONFIG2", dlpf[bandwidth]) }
            ELSE {m}
      S2 == UNION { MpuWriteRegister(t, "SMPDIV", SRD) : t \in S1 }
      S3 == UNION { MpuWriteRegister(t, "INT_PIN_CFG", 0) : t \in S2 }
  IN UNION { MpuWriteRegister(t, "INT_ENABLE", 1) : t \in S3 }

\* getGyroCounts: the three uint16_t delivered through gx, gy, gz
MpuGetGyroCounts(m) ==
  { [t EXCEPT !.ret = << (t.rd[1] * 256 + t.rd[2]) % 65536,
                         (t.rd[3] * 256 + t.rd[4]) % 65536,
                         (t.rd[5] * 256 + t.rd[6]) % 65536 >>] :
    t \in MpuReadRegisters(m, GYRO_OUT - ACCEL_OUT + 1, 6) }

\* getMotion6Counts taking the gyro fields right behind the accel fields
MpuGetMotion6CountsPacked(m) ==
  { [t EXCEPT !.ret = << (t.rd[1] * 256 + t.rd[2]) % 65536,
                         (t.rd[3] * 256 + t.rd[4]) % 65536,
                         (t.rd[5] * 256 + t.rd[6]) % 65536,
                         (t.rd[7] * 256 + t.rd[8]) % 65536,
                         (t.rd[9] * 256 + t.rd[10]) % 65536,
                         (t.rd[11] * 256 + t.rd[12]) % 65536 >>] :
    t \in MpuReadRegisters(m, 1, 14) }

\* getMotion6Counts: one read of 14 bytes from ACCEL_OUT; ax, ay, az from
\* buff[0..5] and gx, gy, gz from buff[8..13]
MpuGetMotion6Counts(m) ==
  { [t EXCEPT !.ret = << (t.rd[1] * 256 + t.rd[2]) % 65536,
                         (t.rd[3] * 256 + t.rd[4]) % 65536,
                         (t.rd[5] * 256 + t.rd[6]) % 65536,
                         (t.rd[9] * 256 + t.rd[10]) % 65536,
                         (t.rd[11] * 256 + t.rd[12]) % 65536,
                         (t.rd[13] * 256 + t.rd[14]) % 65536 >>] :
    t \in MpuReadRegisters(m, 1, 14) }

\* the MPU9250 object after construction: the scales are not initialised
InitMpu ==
  /\ chip = "MPU9250"
  /\ \E u \in {0, 1} : drv = [_accelScale |-> u, _gyroScale |-> u]
  /\ dev = [regs |-> [r \in {"PWR_MGMNT_1", "ACCEL_CONFIG", "GYRO_CONFIG"} |-> 0],
            out |-> [i \in 1 .. 14 |-> 0]]
  /\ log = <<>>
  /\ call = [op |-> "new", arg |-> 0]
  /\ ret = TRUE
  /\ sel = FALSE
  /\ ncalls = 0

\* the state of an MPU9250 call
MpuStart == [drv |-> drv, dev |-> dev, log |-> <<>>, ret |-> TRUE, sel |-> FALSE, rd |-> <<>>]

(* ------------- the range calls with every range value ----------------- *)
\* every value of the range enumerations and one outside them
AllRangeArgs == 0 .. 4
MpuAccelArgs == {"2G", "4G", "8G", "16G", "32G"}
MpuGyroArgs == {"250DPS", "500DPS", "1000DPS", "2000DPS", "4000DPS"}

ConfigAnyAccelRange ==
  /\ chip \in Chips
  /\ \E r \in AllRangeArgs :
       Do("ConfigAccelRange", r,
          IF Is49 THEN ConfigAccelRange49(Start, r) ELSE ConfigAccelRange48(Start, r))

ConfigAnyGyroRange ==
  /\ chip \in Chips
  /\ \E r \in AllRangeArgs :
       Do("ConfigGyroRange", r,
          IF Is49 THEN ConfigGyroRange49(Start, r) ELSE ConfigGyroRange48(Start, r))

begin ==
  /\ chip = "MPU9250"
  /\ \E a \in MpuAccelArgs, g \in MpuGyroArgs :
       Do("begin", <<a, g>>, MpuBegin(MpuStart, a, g))

InitScale == Init \/ InitMpu

NextScale == ConfigAnyAccelRange \/ ConfigAnyGyroRange \/ begin

SpecScale == InitScale /\ [][NextScale]_vars

(* ------------------- the unpacking of byte pairs ---------------------- *)
\* a buffer of n bytes holding the pair (hi, lo) in every 16-bit field
Pairs(hi, lo, n) == [i \in 1 .. n |-> IF i % 2 = 1 THEN hi ELSE lo]

\* a driver about to make its last call; the output registers of the
\* MPU9250 hold any pair of bytes
InitUnpack ==
  /\ chip \in Chips \cup {"MPU9250"}
  /\ IF chip = "MPU9250"
     THEN /\ drv = [_accelScale |-> 2, _gyroScale |-> 250]
          /\ \E hi \in 0 .. 255, lo \in 0 .. 255 :
               dev = [regs |-> [r \in {"PWR_MGMNT_1", "ACCEL_CONFIG", "GYRO_CONFIG"} |-> 0],
                      out |-> Pairs(hi, lo, 14)]
     ELSE /\ drv = InitDrv("I2C", BANK_0_, 0, IF Is49 THEN BufLen49 ELSE BufLen48)
          /\ dev = InitDev(BANK_0_, 255)
  /\ log = <<>>
  /\ call = [op |-> "new", arg |-> 0]
  /\ ret = TRUE
  /\ sel = FALSE
  /\ ncalls = MaxCalls - 1

\* the unpacking of Read(), applied to a buffer holding any pair of bytes
Unpack ==
  /\ chip \in Chips
  /\ ncalls < MaxCalls
  /\ \E hi \in 0 .. 255, lo \in 0 .. 255 :
       Do("Unpack", <<hi, lo>>,
          { IF Is49
            THEN Unpack49([Start EXCEPT !.drv.data_buf_ = Pairs(hi, lo, BufLen49)])
            ELSE Unpack48([Start EXCEPT !.drv.data_buf_ = Pairs(hi, lo, BufLen48)]) })

getAccelCounts ==
  /\ chip = "MPU9250"
  /\ Do("getAccelCounts", 0, MpuGetAccelCounts(MpuStart))

getAccel ==
  /\ chip = "MPU9250"
  /\ Do("getAccel", 0, MpuGetAccel(MpuStart))

NextUnpack == Unpack \/ getAccelCounts \/ getAccel

SpecUnpack == InitUnpack /\ [][NextUnpack]_vars

(* ------------- the MPU9250 filter and count calls --------------------- *)
\* an MPU9250 after begin("2G", "250DPS"), about to make its last call; the
\* fourteen output registers hold different bytes
InitMpuIo ==
  /\ chip = "MPU9250"
  /\ drv = [_accelScale |-> 2, _gyroScale |-> 250]
  /\ \E b \in {0, 100, 200} :
       dev = [regs |-> [r \in {"PWR_MGMNT_1", "ACCEL_CONFIG", "GYRO_CONFIG",
                               "ACCEL_CONFIG2", "CONFIG", "SMPDIV",
                               "INT_PIN_CFG", "INT_ENABLE"} |->
                        IF r = "PWR_MGMNT_1" THEN 1 ELSE 0],
              out |-> [i \in 1 .. 14 |-> (b + 17 * i) % 256]]
  /\ log = <<>>
  /\ call = [op |-> "begin", arg |-> <<"2G", "250DPS">>]
  /\ ret = TRUE
  /\ sel = FALSE
  /\ ncalls = MaxCalls - 1

setFilt ==
  /\ chip = "MPU9250"
  /\ ncalls < MaxCalls
  /\ \E bw \in {"184HZ", "41HZ", "5HZ", "1HZ"}, f \in 1 .. 255 :
       Do("setFilt", <<bw, f>>, MpuSetFilt(MpuStart, bw, f))

getGyroCounts ==
  /\ chip = "MPU9250"
  /\ Do("getGyroCounts", 0, MpuGetGyroCounts(MpuStart))

getMotion6Counts ==
  /\ chip = "MPU9250"
  /\ Do("getMotion6Counts", 0, MpuGetMotion6Counts(MpuStart))

NextMpuIo == setFilt \/ getAccelCounts \/ getGyroCounts \/ getMotion6Counts

SpecMpuIo == InitMpuIo /\ [][NextMpuIo]_vars

(* ---------- two driver instances sharing one device and bus ----------- *)
\* In SpecShared drv is the pair of the two driver objects and call the
\* pair of their positions inside a public call; the device and the log of
\* bus transactions are shared.  Each step is one bus transaction, so the
\* transactions of the two instances interleave freely.
MaxSharedCalls == 3

\* the public calls taken: the bank they need and their register writes in
\* order.  `selected` tells that the bank selection in front of the next
\* write is done: Icm20649 calls SetBank once at the head of the call,
\* Icm20948 selects inside every WriteRegister.
SharedCalls ==
  { [op |-> "EnableDrdyInt", bank |-> BANK_0_, selected |-> FALSE,
     todo |-> << <<"INT_ENABLE_1", INT_ENABLE_1_INT_ENABLE_>> >>],
    [op |-> "ConfigSrd", bank |-> BANK_2_, selected |-> FALSE,
     todo |-> << <<"ACCEL_SMPLRT_DIV_2", 9>>, <<"GYRO_SMPLRT_DIV", 9>> >>] }

Idle == [op |-> "idle", bank |-> BANK_0_, selected |-> FALSE, todo |-> <<>>]

\* both instances created while the device has bank 0 selected
InitShared ==
  /\ chip \in Chips
  /\ LET d == InitDrv("I2C", BANK_0_, 0, IF Is49 THEN BufLen49 ELSE BufLen48)
     IN drv = <<d, d>>
  /\ dev = InitDev(BANK_0_, 255)
  /\ log = <<>>
  /\ call = <<Idle, Idle>>
  /\ ret = TRUE
  /\ sel = FALSE
  /\ ncalls = 0

\* instance i enters a public call
Enter(i) ==
  /\ call[i] = Idle
  /\ ncalls < MaxSharedCalls
  /\ \E c \in SharedCalls : call' = [call EXCEPT ![i] = c]
  /\ ncalls' = ncalls + 1
  /\ UNCHANGED <<chip, drv, dev, log, ret, sel>>

\* the next bus transaction of instance i: the bank-select write when the
\* bank of the call is not the cached one, else the next register write
Transact(i) ==
  LET p == call[i]
      s == [drv |-> drv[i], dev |-> dev, log |-> <<>>, ret |-> TRUE, done |-> FALSE,
            rd |-> <<>>, faults |-> 0, sel |-> sel]
      selecting == ~p.selected /\ p.bank # drv[i].current_bank_
      S == IF selecting
           THEN IF Is49 THEN SelectBank49(s, p.bank) ELSE SelectBank48(s, p.bank)
           ELSE ImuWriteRegister(s, p.todo[1][1], p.todo[1][2])
  IN /\ p # Idle
     /\ \E t \in S :
          /\ drv' = [drv EXCEPT ![i] = t.drv]
          /\ dev' = t.dev
          /\ sel' = t.sel
          /\ log' = Append(log, t.log[1] @@ [by |-> i])
          /\ call' = [call EXCEPT ![i] =
                        IF ~t.ret THEN Idle
                        ELSE IF selecting THEN [p EXCEPT !.selected = TRUE]
                        ELSE IF Len(p.todo) = 1 THEN Idle
                        ELSE [p EXCEPT !.todo = Tail(@), !.selected = Is49]]
     /\ UNCHANGED <<chip, ret, ncalls>>

NextShared == \E i \in 1 .. 2 : Enter(i) \/ Transact(i)

SpecShared == InitShared /\ [][NextShared]_vars

(* ------ one instance whose cached bank starts as the device's bank ---- *)
InitCoherent == Init /\ drv.current_bank_ = dev.bank

\* Begin called again after a Begin that returned true
BeginAgain ==
  /\ call.op = "Begin" /\ ret
  /\ Do("Begin", 1, IF Is49 THEN Begin49(Start) ELSE Begin48(Start))

NextCoherent == Next \/ BeginAgain

SpecCoherent == InitCoherent /\ [][NextCoherent]_vars

(* ===================== reading the transaction log ==================== *)
Idx == 1 .. Len(log)
IsBus(e) == e.k \in {"W", "R"}
IsSelW(e) == e.k = "W" /\ e.reg = "REG_BANK_SEL"
IsReq(e) == e.k = "req"
IsRes(e) == e.k = "res"
\* an acknowledged write of `data` to `reg`
IsAckW(e, reg, data) == e.k = "W" /\ e.reg = reg /\ e.data = data /\ e.ok

(* ================================ C1 ================================== *)
\* requests i < j for the same bank with no request between them, the first
\* one differing from the cached bank and its bank-select write acknowledged
SameBankTwice(i, j) ==
  /\ i < j
  /\ IsReq(log[i]) /\ IsReq(log[j])
  /\ log[i].data = log[j].data
  /\ log[i].data # log[i].cb
  /\ log[i + 1].ok
  /\ \A k \in (i + 1) .. (j - 1) : ~IsReq(log[k])

\* C1: bank-switch elision.  Every request for bank b (Icm20649::SetBank(b),
\* the banked Icm20948::WriteRegister(b, ...) and ReadRegisters(b, ...)) is
\* followed by a bank-select write if and only if b differs from the cached
\* bank, and bank-select writes are issued by requests only; an acknowledged
\* write makes the cached bank b, a failed one leaves it unchanged and the
\* selection returns false (on Icm20948 the banked access then issues no
\* register transaction).  Two consecutive requests for the same bank, the
\* first differing from the cache and succeeding, produce exactly one
\* bank-select write.
C1_BankSwitchElision ==
  /\ \A i \in Idx : IsReq(log[i]) =>
        IF log[i].data = log[i].cb
        THEN /\ i + 1 <= Len(log)
             /\ IsRes(log[i + 1]) /\ log[i + 1].ok
             /\ log[i + 1].cb = log[i].cb
        ELSE /\ i + 2 <= Len(log)
             /\ IsSelW(log[i + 1]) /\ log[i + 1].data = Shl(log[i].data, 4)
             /\ IsRes(log[i + 2])
             /\ log[i + 2].ok = log[i + 1].ok
             /\ log[i + 2].cb = IF log[i + 1].ok THEN log[i].data ELSE log[i].cb
  /\ \A i \in Idx : IsSelW(log[i]) => i > 1 /\ IsReq(log[i - 1])
  /\ \A i \in Idx :
        (chip = "Icm20948" /\ IsRes(log[i]) /\ i < Len(log)) =>
          (IsBus(log[i + 1]) <=> log[i].ok)
  /\ \A i \in Idx, j \in Idx : SameBankTwice(i, j) =>
        {k \in i .. (j + 1) : IsSelW(log[k])} = {i + 1}

\* a call in which the same bank was requested twice in a row and only the
\* first request wrote the bank-select register, and a later request's
\* bank-select write failed
C1_Witness ==
  /\ \E i \in Idx, j \in Idx : SameBankTwice(i, j)
  /\ \E i \in Idx : IsSelW(log[i]) /\ ~log[i].ok

(* ================================ C2 ================================== *)
\* C2: cached-bank coherence.  In every state reached after the first
\* acknowledged bank-select write, the cached current bank equals the bank
\* selected on the device, whichever public calls were made and whichever
\* transactions failed, device resets included.
C2_CachedBankCoherent == sel => drv.current_bank_ = dev.bank

\* a device reset has landed after a bank other than 0 had been selected,
\* and the cached bank follows the device back to bank 0
C2_Witness ==
  /\ sel
  /\ \E i \in Idx, j \in Idx :
       /\ i < j
       /\ IsAckW(log[j], "PWR_MGMT_1", PWR_MGMT_1_RESET_)
       /\ log[j].bank = 0
       /\ IsSelW(log[i]) /\ log[i].ok /\ log[i].bank # 0
  /\ drv.current_bank_ = 0 /\ dev.bank = 0

(* ================================ C3 ================================== *)
\* the public call just made passed a value outside its enumeration
InvalidConfigCall ==
  \/ call.op = "ConfigAccelRange" /\ call.arg \notin AccelRanges
  \/ call.op = "ConfigGyroRange" /\ call.arg \notin GyroRanges
  \/ call.op = "ConfigAccelDlpfBandwidth" /\ call.arg \notin AccelDlpfs
  \/ call.op = "ConfigGyroDlpfBandwidth" /\ call.arg \notin GyroDlpfs
  \/ call.op = "ConfigTempDlpfBandwidth" /\ call.arg \notin TempDlpfs

\* the committed configuration of the driver
Committed(d) ==
  <<d.accel_range_, d.accel_scale_, d.gyro_range_, d.gyro_scale_,
    d.accel_dlpf_bandwidth_, d.gyro_dlpf_bandwidth_, d.temp_dlpf_bandwidth_>>
\* the staged configuration of the driver
Staged(d) ==
  <<d.requested_accel_range_, d.requested_accel_scale_,
    d.requested_gyro_range_, d.requested_gyro_scale_,
    d.accel_requested_dlpf_, d.gyro_requested_dlpf_, d.temp_requested_dlpf_>>

\* C3: invalid configuration value.  A range or DLPF configuration call with
\* a value outside the chip variant's enumeration returns false, issues no
\* bus write of any kind (no bank-select write either) and leaves the
\* committed configuration, the staged values and the cached bank unchanged,
\* on both chips and from any cached bank.
C3_InvalidValueRejected ==
  [][ InvalidConfigCall' =>
        /\ ~ret'
        /\ \A i \in 1 .. Len(log') : log'[i].k # "W"
        /\ Committed(drv') = Committed(drv)
        /\ Staged(drv') = Staged(drv)
        /\ drv'.current_bank_ = drv.current_bank_ ]_vars

\* Icm20649 rejected an invalid value, after it had written the bank-select
\* register and moved the cached bank to 2
C3_Witness ==
  /\ chip = "Icm20649"
  /\ InvalidConfigCall
  /\ ~ret
  /\ Len(log) >= 2 /\ IsSelW(log[2]) /\ log[2].ok /\ log[2].cb # 2
  /\ drv.current_bank_ = 2

(* ================================ C4 ================================== *)
AccelScale(r) == IF chip = "Icm20649" THEN AccelScale49(r) ELSE AccelScale48(r)
GyroScale(r) == IF chip = "Icm20649" THEN GyroScale49(r) ELSE GyroScale48(r)
\* the log l holds an acknowledged write to reg
AckedWrite(l, reg) == \E i \in 1 .. Len(l) : l[i].k = "W" /\ l[i].reg = reg /\ l[i].ok
\* the last transaction of log l is a failed write to reg
WriteBackFailed(l, reg) ==
  /\ Len(l) > 0
  /\ l[Len(l)].k = "W" /\ l[Len(l)].reg = reg /\ ~l[Len(l)].ok

\* one committed field (old before the step, new after it): set by the call
\* op to `requested` when op returns true, and otherwise changed only by
\* Begin, to the default `dflt`, and in both cases only with an acknowledged
\* write to reg; a failed write-back makes op return false
CommitRule(op, reg, old, new, requested, dflt) ==
  /\ (call'.op = op /\ ret') => new = requested /\ AckedWrite(log', reg)
  /\ (call'.op = op /\ WriteBackFailed(log', reg)) => ~ret'
  /\ new # old =>
       \/ call'.op = op /\ ret'
       \/ call'.op = "Begin" /\ new = dflt /\ AckedWrite(log', reg)

\* C4: commit only on acknowledged write.  The committed accel range and
\* scale, gyro range and scale, and accel, gyro and temperature DLPF change
\* only inside a configuration call that returns true (a public one, or one
\* made by Begin), and then equal the requested value and its scale; a call
\* whose write-back fails returns false, and a configuration call that
\* returns false leaves every committed field as it was.
C4_CommitOnlyOnAck ==
  [][ /\ CommitRule("ConfigAccelRange", "ACCEL_CONFIG",
                    <<drv.accel_range_, drv.accel_scale_>>,
                    <<drv'.accel_range_, drv'.accel_scale_>>,
                    <<call'.arg, AccelScale(call'.arg)>>,
                    IF chip = "Icm20649"
                    THEN <<ACCEL_RANGE_30G_49, AccelScale49(ACCEL_RANGE_30G_49)>>
                    ELSE <<ACCEL_RANGE_16G_48, AccelScale48(ACCEL_RANGE_16G_48)>>)
      /\ CommitRule("ConfigGyroRange", "GYRO_CONFIG_1",
                    <<drv.gyro_range_, drv.gyro_scale_>>,
                    <<drv'.gyro_range_, drv'.gyro_scale_>>,
                    <<call'.arg, GyroScale(call'.arg)>>,
                    IF chip = "Icm20649"
                    THEN <<GYRO_RANGE_4000DPS_49, GyroScale49(GYRO_RANGE_4000DPS_49)>>
                    ELSE <<GYRO_RANGE_2000DPS_48, GyroScale48(GYRO_RANGE_2000DPS_48)>>)
      /\ CommitRule("ConfigAccelDlpfBandwidth", "ACCEL_CONFIG",
                    drv.accel_dlpf_bandwidth_, drv'.accel_dlpf_bandwidth_, call'.arg,
                    IF chip = "Icm20649" THEN ACCEL_DLPF_BANDWIDTH_111HZ
                    ELSE ACCEL_DLPF_BANDWIDTH_473HZ)
      /\ CommitRule("ConfigGyroDlpfBandwidth", "GYRO_CONFIG_1",
                    drv.gyro_dlpf_bandwidth_, drv'.gyro_dlpf_bandwidth_, call'.arg,
                    IF chip = "Icm20649" THEN GYRO_DLPF_BANDWIDTH_119HZ
                    ELSE GYRO_DLPF_BANDWIDTH_361HZ)
      /\ CommitRule("ConfigTempDlpfBandwidth", "TEMP_CONFIG",
                    drv.temp_dlpf_bandwidth_, drv'.temp_dlpf_bandwidth_, call'.arg,
                    TEMP_DLPF_BANDWIDTH_7932HZ)
      /\ (call'.op \in {"ConfigAccelRange", "ConfigGyroRange", "ConfigAccelDlpfBandwidth",
                         "ConfigGyroDlpfBandwidth", "ConfigTempDlpfBandwidth"} /\ ~ret')
           => Committed(drv') = Committed(drv) ]_vars

\* a range configuration whose write-back failed: it returned false with a
\* value staged that differs from the committed one
C4_Witness ==
  /\ call.op = "ConfigAccelRange"
  /\ WriteBackFailed(log, "ACCEL_CONFIG")
  /\ ~ret
  /\ drv.requested_accel_range_ = call.arg
  /\ drv.accel_range_ # call.arg

(* ================================ C5 ================================== *)
\* through the whole of the last call the cached bank was the device's bank
CoherentCall ==
  /\ \A i \in Idx : log[i].cb = log[i].bank
  /\ drv.current_bank_ = dev.bank

\* C5: gyro range reaches the chip.  After ConfigGyroRange(r) returns true
\* (the cached bank being the device's bank), bits [2:1] of the device's
\* GYRO_CONFIG_1 hold the encoding of r and agree with the committed
\* gyro_range_, for every valid r and after any preceding calls, on both
\* chips.
C5_GyroRangeReachesChip ==
  (call.op = "ConfigGyroRange" /\ ret /\ CoherentCall) =>
    /\ Field(dev.regs["GYRO_CONFIG_1"], 2, 1) = call.arg
    /\ Field(dev.regs["GYRO_CONFIG_1"], 2, 1) = drv.gyro_range_

\* ConfigAccelRange(1) was committed, then ConfigGyroRange(3) returned true
\* and committed 3, and the chip's gyro range field holds 1
C5_Witness ==
  /\ call.op = "ConfigGyroRange" /\ call.arg = 3 /\ ret
  /\ CoherentCall
  /\ drv.accel_range_ = 1 /\ drv.requested_accel_range_ = 1
  /\ drv.gyro_range_ = 3
  /\ Field(dev.regs["GYRO_CONFIG_1"], 2, 1) = 1

(* ================================ C6 ================================== *)
\* register reg keeps the bits of mask over the step
KeepsBits(reg, mask) == BitAnd(dev'.regs[reg], mask) = BitAnd(dev.regs[reg], mask)

\* C6: field isolation of read-modify-write.  A range configuration that
\* returns true changes only bits [2:1] of its register, and a DLPF
\* configuration that returns true changes only bits [5:3] and bit 0, so
\* that the field set by an earlier call survives a later call on the same
\* register.
C6_FieldIsolation ==
  [][ /\ (call'.op = "ConfigAccelRange" /\ ret') => KeepsBits("ACCEL_CONFIG", 249)
      /\ (call'.op = "ConfigGyroRange" /\ ret') => KeepsBits("GYRO_CONFIG_1", 249)
      /\ (call'.op = "ConfigAccelDlpfBandwidth" /\ ret') => KeepsBits("ACCEL_CONFIG", 198)
      /\ (call'.op = "ConfigGyroDlpfBandwidth" /\ ret') => KeepsBits("GYRO_CONFIG_1", 198)
    ]_vars

\* the first call on a device whose ACCEL_CONFIG held 255 is a
\* ConfigAccelRange that returned true after its read had failed, and bits
\* outside [2:1] of ACCEL_CONFIG are no longer all set
C6_Witness ==
  /\ ncalls = 1
  /\ call.op = "ConfigAccelRange" /\ ret
  /\ \E i \in Idx : log[i].k = "R" /\ log[i].reg = "ACCEL_CONFIG" /\ ~log[i].ok
  /\ BitAnd(dev.regs["ACCEL_CONFIG"], 249) # 249

(* ================================ C7 ================================== *)
\* the register a read-modify-write configuration call works on
RmwReg(op) ==
  IF op \in {"ConfigAccelRange", "ConfigAccelDlpfBandwidth"} THEN "ACCEL_CONFIG"
  ELSE "GYRO_CONFIG_1"
RmwOps ==
  {"ConfigAccelRange", "ConfigGyroRange",
   "ConfigAccelDlpfBandwidth", "ConfigGyroDlpfBandwidth"}
\* transaction i is the failed read of the configuration register, or a
\* failed bank switch before that read
ReadHalfFailed(i) ==
  /\ ~log[i].ok
  /\ \/ log[i].k = "R" /\ log[i].reg = RmwReg(call.op)
     \/ IsSelW(log[i]) /\ \A j \in 1 .. (i - 1) : log[j].k # "R"

\* C7: a transport failure in the read half of a read-modify-write is
\* surfaced.  If the read of the configuration register, or the bank switch
\* before it, fails inside a range or DLPF configuration call, the call
\* returns false and issues no write to that register, and the committed
\* state is unchanged.
C7_ReadFailureSurfaced ==
  call.op \in RmwOps =>
    \A i \in Idx : ReadHalfFailed(i) =>
      /\ ~ret
      /\ \A j \in Idx : ~(log[j].k = "W" /\ log[j].reg = RmwReg(call.op))

\* a range configuration returned true and committed the value although its
\* read had failed: the byte written back was not read in this call
C7_Witness ==
  /\ call.op = "ConfigGyroRange" /\ ret
  /\ drv.gyro_range_ = call.arg
  /\ \E i \in Idx, j \in Idx :
       /\ i < j
       /\ log[i].k = "R" /\ log[i].reg = "GYRO_CONFIG_1" /\ ~log[i].ok
       /\ log[j].k = "W" /\ log[j].reg = "GYRO_CONFIG_1" /\ log[j].ok

(* ================================ C8 ================================== *)
\* C8: Begin is fail-fast.  Begin returns true only if every bus transaction
\* it issued was acknowledged, and after the first failed transaction it
\* issues no further transaction and returns false.
C8_BeginFailFast ==
  call.op = "Begin" =>
    \A i \in Idx : (IsBus(log[i]) /\ ~log[i].ok) =>
      /\ ~ret
      /\ \A j \in (i + 1) .. Len(log) : ~IsBus(log[j])

\* Begin returned true although one of its transactions had failed
C8_Witness ==
  /\ call.op = "Begin" /\ ret
  /\ \E i \in Idx : IsBus(log[i]) /\ ~log[i].ok

(* ================================ C9 ================================== *)
IsIdRead(e) == e.k = "R" /\ e.reg = "WHO_AM_I"
\* transaction i of log l is the read of the AK09916 identity through the
\* auxiliary master: the read of EXT_SLV_SENS_DATA_00 after slave 0 was
\* pointed at WIA2
IsAkIdRead(l, i) ==
  /\ l[i].k = "R" /\ l[i].reg = "EXT_SLV_SENS_DATA_00"
  /\ \E j \in 1 .. (i - 1) :
       /\ l[j].k = "W" /\ l[j].reg = "I2C_SLV0_REG" /\ l[j].data = AK09916_WIA2_
       /\ \A k \in (j + 1) .. (i - 1) : ~(l[k].k = "W" /\ l[k].reg = "I2C_SLV0_REG")
\* an identity byte read in log l differs from the expected constant
IdMismatch(l) ==
  \E i \in 1 .. Len(l) :
    /\ l[i].ok
    /\ \/ IsIdRead(l[i]) /\ l[i].val # WHOAMI_ICM20649_
       \/ chip = "Icm20948" /\ IsAkIdRead(l, i) /\ l[i].val # WHOAMI_AK09916_

\* C9: identity mismatch is fatal to Begin.  If the WHO-AM-I byte read from
\* the primary device, or on Icm20948 from the AK09916 through the indirect
\* path, differs from the expected constant, Begin returns false, writes no
\* range, DLPF or sample-rate-divider register in that call and modifies no
\* committed range, scale, DLPF or SRD field.
C9_IdentityMismatchFatal ==
  [][ (call'.op = "Begin" /\ IdMismatch(log')) =>
        /\ ~ret'
        /\ \A i \in 1 .. Len(log') : ~(log'[i].k = "W" /\ log'[i].reg \in ConfigRegs)
        /\ Committed(drv') = Committed(drv)
        /\ drv'.srd_ = drv.srd_ ]_vars

\* a Begin of Icm20948 in which the primary identity matched and the
\* AK09916 answered with another byte
C9_Witness ==
  /\ chip = "Icm20948" /\ call.op = "Begin" /\ ~ret
  /\ \E i \in Idx, j \in Idx :
       /\ i < j
       /\ IsIdRead(log[i]) /\ log[i].ok /\ log[i].val = WHOAMI_ICM20649_
       /\ IsAkIdRead(log, j) /\ log[j].ok /\ log[j].val # WHOAMI_AK09916_

(* ================================ C10 ================================= *)
IsResetW(e) == e.k = "W" /\ e.reg = "PWR_MGMT_1" /\ e.data = PWR_MGMT_1_RESET_
IsClockW(e) == e.k = "W" /\ e.reg = "PWR_MGMT_1" /\ e.data = PWR_MGMT_1_CLKSEL_AUTO_
\* every default configuration register has an acknowledged write before
\* transaction i
DefaultsAppliedBefore(i) ==
  \A r \in ConfigRegs :
    (r = "TEMP_CONFIG" /\ chip = "Icm20649") \/
    \E j \in 1 .. (i - 1) : log[j].k = "W" /\ log[j].reg = r /\ log[j].ok

\* C10 as stated: in every Begin that reaches the identity check a device
\* reset was written earlier in the call, followed by the clock-source
\* selection, and on Icm20948 the AK09916 identity is read only after the
\* default range/DLPF/SRD configuration has been applied.
C10_StepOrderAsStated ==
  call.op = "Begin" =>
    /\ \A i \in Idx : IsIdRead(log[i]) =>
          \E j \in Idx, k \in Idx :
            j < k /\ k < i /\ IsResetW(log[j]) /\ IsClockW(log[k])
    /\ \A i \in Idx : (chip = "Icm20948" /\ IsAkIdRead(log, i)) =>
          DefaultsAppliedBefore(i)

\* C10 (amended): in every Begin that reaches the primary identity read the
\* clock-source selection was written and acknowledged earlier in the call;
\* on Icm20948 that selection follows the device-reset write, which is
\* issued unless a bank-select write failed before it, and Icm20649::Begin
\* writes no reset at all.  On Icm20948 the AK09916 identity is verified
\* after the primary identity and before the defaults: every write to a
\* range, DLPF or sample-rate-divider register in Begin comes after both
\* identity bytes were read and matched.
C10_BeginStepOrder ==
  call.op = "Begin" =>
    /\ \A i \in Idx : IsIdRead(log[i]) =>
          \E k \in 1 .. (i - 1) :
            /\ IsClockW(log[k]) /\ log[k].ok
            /\ chip = "Icm20948" =>
                 \E j \in 1 .. (k - 1) :
                   IsResetW(log[j]) \/ (IsSelW(log[j]) /\ ~log[j].ok)
    /\ chip = "Icm20649" => \A i \in Idx : ~IsResetW(log[i])
    /\ \A i \in Idx : (log[i].k = "W" /\ log[i].reg \in ConfigRegs) =>
          \E p \in 1 .. (i - 1) :
            /\ IsIdRead(log[p]) /\ log[p].ok /\ log[p].val = WHOAMI_ICM20649_
            /\ chip = "Icm20948" =>
                 \E q \in (p + 1) .. (i - 1) :
                   IsAkIdRead(log, q) /\ log[q].ok /\ log[q].val = WHOAMI_AK09916_

\* a Begin of Icm20948 that ran to the end: reset, clock selection, primary
\* identity, AK09916 identity, then the defaults
C10_Witness ==
  /\ chip = "Icm20948" /\ call.op = "Begin" /\ ret
  /\ \E p \in Idx :
       /\ IsIdRead(log[p])
       /\ \E j \in 1 .. (p - 1) :
            /\ IsResetW(log[j]) /\ log[j].ok
            /\ \E k \in (j + 1) .. (p - 1) : IsClockW(log[k]) /\ log[k].ok
       /\ \E q \in (p + 1) .. Len(log) :
            /\ IsAkIdRead(log, q)
            /\ \E i \in (q + 1) .. Len(log) :
                 log[i].k = "W" /\ log[i].reg = "ACCEL_CONFIG"


(* ------------------------------ C11 ----------------------------------- *)
\* the status byte read by Read() was delivered with the raw-data-ready bit clear
NotReadyRead(l) ==
  \E i \in 1 .. Len(l) :
    /\ l[i].k = "R" /\ l[i].reg = "INT_STATUS_1" /\ l[i].ok
    /\ BitAnd(l[i].val, RAW_DATA_RDY_INT_) = 0

\* the burst read of the sample registers was issued
BurstIssued(l) == \E i \in 1 .. Len(l) : l[i].k = "R" /\ l[i].reg = "ACCEL_XOUT_H"

\* the stored raw counts and scaled values
Sample(d) ==
  <<d.accel_cnts_, d.gyro_cnts_, d.temp_cnts_, d.mag_cnts_,
    d.accel_, d.gyro_, d.temp_, d.mag_>>

\* C11: a Read() whose interrupt-status byte has the raw-data-ready bit clear
\* returns false with the new-IMU-data flag false, issues no burst read, and
\* leaves every stored raw count and scaled value as it was.
C11_NotReadyRead ==
  [][ (call'.op = "Read" /\ NotReadyRead(log')) =>
        /\ ~ret'
        /\ ~drv'.new_imu_data_
        /\ ~BurstIssued(log')
        /\ Sample(drv') = Sample(drv) ]_vars

\* a not-ready Read() after a Read() that stored a sample
C11_Witness ==
  /\ call.op = "Read" /\ NotReadyRead(log) /\ ~ret
  /\ drv.accel_cnts_ # <<0, 0, 0>>
  /\ drv.temp_ # 0


(* ------------------------------ C12 ----------------------------------- *)
\* a bus transaction of the call failed
SomeFailed(l) == \E i \in 1 .. Len(l) : IsBus(l[i]) /\ ~l[i].ok

\* the burst read of the call was acknowledged
BurstAcked(l) ==
  \E i \in 1 .. Len(l) : l[i].k = "R" /\ l[i].reg = "ACCEL_XOUT_H" /\ l[i].ok

\* C12: if any bus transaction of Read() fails (bank select, status read or
\* burst read), Read() returns false; it returns true only when the burst
\* read was acknowledged.
C12_ReadTransportFailureSurfaced ==
  call.op = "Read" =>
    /\ SomeFailed(log) => ~ret
    /\ ret => BurstAcked(log)

\* Read() returned true although its burst read failed
C12_Witness ==
  /\ call.op = "Read" /\ ret
  /\ \E i \in Idx : log[i].k = "R" /\ log[i].reg = "ACCEL_XOUT_H" /\ ~log[i].ok
  /\ drv.new_imu_data_


(* ------------------------------ C13 ----------------------------------- *)
\* the signed value of the 16-bit pattern n
Int16Of(n) == IF n >= 32768 THEN n - 65536 ELSE n

\* d1 holds the magnetometer state that Read() must leave, given the burst
\* in d1.data_buf_ (ST1 is byte 14, ST2 byte 22) and the state d0 before
MagValidity(d0, d1) ==
  LET b == d1.data_buf_
      valid == BitAnd(b[15], 1) = 1 /\ BitAnd(b[23], 8) = 0
  IN /\ d1.new_mag_data_ = valid
     /\ d1.mag_ = IF valid
                  THEN << - Int16Of(b[19] * 256 + b[18]),
                          Int16Of(b[17] * 256 + b[16]),
                          Int16Of(b[21] * 256 + b[20]) >>
                  ELSE d0.mag_

\* C13: after an Icm20948 Read() that returns true, a burst was read in that
\* call, the new-mag-data flag is true iff ST1 data-ready is set and ST2
\* overflow is clear in that burst, and the scaled magnetometer values are
\* recomputed from the burst when the flag is true and kept otherwise.
C13_MagValidity ==
  [][ (call'.op = "Read" /\ chip = "Icm20948" /\ ret') =>
        BurstAcked(log') /\ MagValidity(drv, drv') ]_vars

\* the same, for the calls whose burst read was acknowledged
C13_MagValidityOfBurst ==
  [][ (call'.op = "Read" /\ chip = "Icm20948" /\ ret' /\ BurstAcked(log')) =>
        MagValidity(drv, drv') ]_vars

\* Read() returned true and raised the new-mag-data flag without a burst
C13_Witness ==
  /\ call.op = "Read" /\ chip = "Icm20948" /\ ret
  /\ ~BurstAcked(log)
  /\ drv.new_mag_data_


(* ------------------------------ C14 ----------------------------------- *)
\* the register transactions of the call, bank-select writes left out
RegIdx == { i \in Idx : IsBus(log[i]) /\ log[i].reg # "REG_BANK_SEL" }
\* the position of transaction i among them
Rank(i) == Cardinality({ j \in RegIdx : j <= i })

\* the register transactions WriteAk09916Register(reg, data) makes, in order
AkWriteSteps(reg, data) ==
  << <<"W", "I2C_SLV0_ADDR", AK09916_I2C_ADDR_>>,
     <<"W", "I2C_SLV0_REG", reg>>,
     <<"W", "I2C_SLV0_D0", data>>,
     <<"W", "I2C_SLV0_CTRL", 129>>,
     <<"W", "I2C_SLV0_ADDR", 140>>,
     <<"W", "I2C_SLV0_REG", reg>>,
     <<"W", "I2C_SLV0_CTRL", 129>>,
     <<"R", "EXT_SLV_SENS_DATA_00", 1>> >>

\* the register transactions of the call are the first ones of `steps`, in
\* order, and only the last one made may have failed
FollowsSteps(steps) ==
  /\ Cardinality(RegIdx) <= Len(steps)
  /\ \A i \in RegIdx :
       /\ <<log[i].k, log[i].reg, log[i].data>> = steps[Rank(i)]
       /\ ~log[i].ok => Rank(i) = Cardinality(RegIdx)

\* every step of `steps` was made and acknowledged
AllStepsAcked(steps) ==
  /\ Cardinality(RegIdx) = Len(steps)
  /\ \A i \in RegIdx : log[i].ok

\* C14: WriteAk09916Register(reg, data) returns true iff its four control
\* writes (slave address without the read flag, target register, data byte,
\* control = enable | length 1) and the indirect read-back all succeed and the
\* byte read back equals data; a differing read-back gives false; the data
\* byte is written to the data-out register at most once per call.
C14_IndirectWriteVerified ==
  call.op = "WriteAk09916Register" =>
    LET reg == call.arg[1]
        data == call.arg[2]
    IN /\ FollowsSteps(AkWriteSteps(reg, data))
       /\ ret <=> /\ AllStepsAcked(AkWriteSteps(reg, data))
                   /\ \E i \in RegIdx : log[i].k = "R" /\ log[i].val = data
       /\ Cardinality({ i \in Idx : log[i].k = "W" /\ log[i].reg = "I2C_SLV0_D0" }) <= 1

\* a call whose transactions were all acknowledged and whose read-back
\* differed from the data byte, returning false
C14_Witness ==
  /\ call.op = "WriteAk09916Register" /\ ~ret
  /\ AllStepsAcked(AkWriteSteps(call.arg[1], call.arg[2]))
  /\ \E i \in RegIdx : log[i].k = "R" /\ log[i].val # call.arg[2]


(* ------------------------------ C15 ----------------------------------- *)
\* the full scale the name of each range value states
NominalAccel(r) == IF chip = "Icm20649" THEN <<4, 8, 16, 30>>[r + 1] ELSE <<2, 4, 8, 16>>[r + 1]
NominalGyro(r) ==
  IF chip = "Icm20649" THEN <<500, 1000, 2000, 4000>>[r + 1] ELSE <<250, 500, 1000, 2000>>[r + 1]
\* the full scale the code divides by 32767.5
UsedAccel(r) == IF chip = "Icm20649" THEN <<4, 8, 16, 32>>[r + 1] ELSE <<2, 4, 8, 16>>[r + 1]
NominalMpuAccel == ("2G" :> 2) @@ ("4G" :> 4) @@ ("8G" :> 8) @@ ("16G" :> 16)
NominalMpuGyro ==
  ("250DPS" :> 250) @@ ("500DPS" :> 500) @@ ("1000DPS" :> 1000) @@ ("2000DPS" :> 2000)

\* the scale numerators committed by the gyro calls and by MPU9250::begin
\* are the nominal ones
OtherScalesNominal ==
  /\ (call.op = "ConfigGyroRange" /\ ret /\ call.arg \in 0 .. 3) =>
       drv.gyro_range_ = call.arg /\ drv.gyro_scale_ = NominalGyro(call.arg)
  /\ (call.op = "begin" /\ call.arg[1] \in DOMAIN NominalMpuAccel) =>
       drv._accelScale = NominalMpuAccel[call.arg[1]]
  /\ (call.op = "begin" /\ call.arg[2] \in DOMAIN NominalMpuGyro) =>
       drv._gyroScale = NominalMpuGyro[call.arg[2]]

Signed(hi, lo) == Int16Of(hi * 256 + lo)

\* the counts stored by the unpacking of Read(): b[i + 1] is data_buf_[i]
IcmCountsSigned ==
  call.op = "Unpack" =>
    LET b == drv.data_buf_
    IN /\ drv.accel_cnts_ = <<Signed(b[1], b[2]), Signed(b[3], b[4]), Signed(b[5], b[6])>>
       /\ drv.gyro_cnts_ = <<Signed(b[7], b[8]), Signed(b[9], b[10]), Signed(b[11], b[12])>>
       /\ drv.temp_cnts_ = Signed(b[13], b[14])
       /\ chip = "Icm20948" =>
            drv.mag_cnts_ = <<Signed(b[17], b[16]), Signed(b[19], b[18]), Signed(b[21], b[20])>>
       /\ \A i \in 1 .. 3 :
            /\ drv.accel_cnts_[i] \in -32768 .. 32767
            /\ drv.gyro_cnts_[i] \in -32768 .. 32767
            /\ drv.mag_cnts_[i] \in -32768 .. 32767
       /\ (b[1] = 127 /\ b[2] = 255) => drv.accel_cnts_[1] = 32767
       /\ (b[1] = 128 /\ b[2] = 0) => drv.accel_cnts_[1] = -32768

\* the bytes of the output registers were delivered to the call
OutputRead == \E i \in Idx : log[i].k = "R" /\ log[i].ok

\* getAccel scales the signed value of each pair
MpuScaledSigned ==
  (call.op = "getAccel" /\ OutputRead) =>
    \A i \in 1 .. 3 :
      ret[i] = Signed(dev.out[2 * i - 1], dev.out[2 * i]) * drv._accelScale

\* C16: for every pair of bytes (hi, lo) the count unpacked for an accel,
\* gyro or temperature field is the signed 16-bit value of hi * 256 + lo, a
\* magnetometer field takes its first byte as the low byte, and the result
\* lies in -32768 .. 32767; this for the counts of Read() and for the counts
\* delivered by MPU9250::getAccelCounts.
C16_Unpacking ==
  /\ IcmCountsSigned
  /\ MpuScaledSigned
  /\ (call.op = "getAccelCounts" /\ OutputRead) =>
       \A i \in 1 .. 3 :
         /\ ret[i] = Signed(dev.out[2 * i - 1], dev.out[2 * i])
         /\ ret[i] \in -32768 .. 32767

\* the same without the counts delivered by MPU9250::getAccelCounts
C16_UnpackingSigned == IcmCountsSigned /\ MpuScaledSigned

\* getAccelCounts delivered 32768 for the pair [0x80, 0x00]
C16_Witness ==
  /\ call.op = "getAccelCounts" /\ OutputRead
  /\ dev.out[1] = 128 /\ dev.out[2] = 0
  /\ ret[1] = 32768


(* ------------------------------ C17 ----------------------------------- *)
\* the register transactions ConfigSrd(srd) makes, in order
SrdSteps(srd) ==
  LET dividers == << <<"W", "ACCEL_SMPLRT_DIV_2", srd>>, <<"W", "GYRO_SMPLRT_DIV", srd>> >>
  IN IF chip = "Icm20649" THEN dividers
     ELSE dividers \o AkWriteSteps(49, 2)
          \o << <<"W", "I2C_SLV0_ADDR", 140>>, <<"W", "I2C_SLV0_REG", 16>>,
                <<"W", "I2C_SLV0_CTRL", 136>>, <<"R", "EXT_SLV_SENS_DATA_00", 8>> >>

\* every step of ConfigSrd succeeded: each transaction was acknowledged and
\* the byte read back from the AK09916 control register is the mode written
SrdStepsSucceeded(srd) ==
  /\ AllStepsAcked(SrdSteps(srd))
  /\ chip = "Icm20948" => \E i \in RegIdx : Rank(i) = 10 /\ log[i].val = 2

\* the divider writes were made with bank 2 as the driver's bank
DividersInBank2 ==
  \A i \in RegIdx :
    log[i].reg \in {"ACCEL_SMPLRT_DIV_2", "GYRO_SMPLRT_DIV"} => log[i].cb = BANK_2_

\* C17: ConfigSrd(srd) writes srd to the accel and then to the gyro
\* sample-rate divider in bank 2; on Icm20948 it then writes
\* continuous-measurement mode to the AK09916 control register through the
\* indirect path and makes one indirect read starting at status 1; srd_
\* becomes srd only if every step succeeded and is unchanged otherwise.
C17_ConfigSrdSequence ==
  [][ call'.op = "ConfigSrd" =>
        /\ FollowsSteps(SrdSteps(call.arg))'
        /\ DividersInBank2'
        /\ ret' <=> SrdStepsSucceeded(call.arg)'
        /\ drv'.srd_ = IF ret' THEN call'.arg ELSE drv.srd_ ]_vars

\* an Icm20948 ConfigSrd(9) that made all its steps and recorded 9
C17_Witness ==
  /\ chip = "Icm20948" /\ call.op = "ConfigSrd" /\ call.arg = 9 /\ ret
  /\ Cardinality(RegIdx) = 14
  /\ drv.srd_ = 9



(* ------------------------------ C18 ----------------------------------- *)
\* the register a DLPF configuration call writes
DlpfReg == IF call.op = "ConfigAccelDlpfBandwidth" THEN "ACCEL_CONFIG" ELSE "GYRO_CONFIG_1"

\* C18: after a ConfigAccelDlpfBandwidth or ConfigGyroDlpfBandwidth call
\* that returns true, the byte it wrote to ACCEL_CONFIG / GYRO_CONFIG_1 has
\* bit 0 set and bits [5:3] equal to the requested bandwidth's encoding,
\* whatever the register held before.
C18_DlpfEnableBit ==
  (call.op \in {"ConfigAccelDlpfBandwidth", "ConfigGyroDlpfBandwidth"} /\ ret) =>
    /\ \E i \in Idx : log[i].k = "W" /\ log[i].reg = DlpfReg /\ log[i].ok
    /\ \A i \in Idx :
         (log[i].k = "W" /\ log[i].reg = DlpfReg) =>
           /\ log[i].data % 2 = 1
           /\ (log[i].data \div 8) % 8 = call.arg

\* a successful call that found the enable bit clear and another bandwidth
\* in the byte it read
C18_Witness ==
  /\ call.op \in {"ConfigAccelDlpfBandwidth", "ConfigGyroDlpfBandwidth"} /\ ret
  /\ \E i \in Idx :
       /\ log[i].k = "R" /\ log[i].reg = DlpfReg /\ log[i].ok
       /\ log[i].val % 2 = 0
       /\ (log[i].val \div 8) % 8 # call.arg


(* ------------------------------ C20 ----------------------------------- *)
\* C20: Config issues no bus transaction and changes only the interface
\* mode (and the device selector, which the transport holds); the cached
\* bank, the committed ranges, scales, DLPF settings and SRD, and the device
\* are as before.
C20_ConfigInMemory ==
  [][ call'.op = "Config" =>
        /\ log' = <<>>
        /\ dev' = dev
        /\ drv' = [drv EXCEPT !.iface_ = call'.arg] ]_vars

\* a Config after a range was committed with bank 2 cached
C20_Witness ==
  /\ call.op = "Config" /\ ncalls = 2
  /\ drv.current_bank_ = BANK_2_
  /\ drv.accel_range_ = 1 /\ drv.accel_scale_ # 0


(* ------------------------------ C19 ----------------------------------- *)
\* transaction k is a register access made while the device had another
\* bank selected than the one of the register
Misdirected(k) ==
  /\ log[k].reg # "REG_BANK_SEL"
  /\ log[k].bank # RegBank(log[k].reg)

\* transaction j is an acknowledged bank-select write of instance i
AckedSelectBy(j, i) ==
  log[j].reg = "REG_BANK_SEL" /\ log[j].ok /\ log[j].by = i

\* C19 (serialized part): a register access of an instance that follows an
\* acknowledged bank-select write of that instance with no transaction of
\* the other instance in between lands in its bank; and an access lands in
\* another bank only after a bank-select write of the other instance that
\* the accessing instance has not answered with one of its own.
C19_SerializedReselectSafe ==
  \A k \in Idx :
    /\ \A j \in 1 .. (k - 1) :
         ( /\ AckedSelectBy(j, log[k].by)
           /\ \A m \in j .. k : log[m].by = log[k].by ) => ~Misdirected(k)
    /\ Misdirected(k) =>
         \E j \in 1 .. (k - 1) :
           /\ AckedSelectBy(j, 3 - log[k].by)
           /\ \A m \in (j + 1) .. (k - 1) : ~AckedSelectBy(m, log[k].by)

\* C19 (interleaved part): between an instance's acknowledged bank-select
\* write and the register write that follows it in the same call, the other
\* instance selects another bank; the instance's cached bank then differs
\* from the device's bank and its register write lands in the other bank
C19_Witness ==
  \E k \in Idx :
    /\ Misdirected(k) /\ log[k].ok
    /\ log[k].cb = RegBank(log[k].reg)
    /\ log[k].cb # log[k].bank
    /\ \E j \in 1 .. (k - 2) :
         /\ AckedSelectBy(j, log[k].by)
         /\ \A m \in (j + 1) .. (k - 1) : log[m].by # log[k].by
         /\ \E m \in (j + 1) .. (k - 1) : AckedSelectBy(m, 3 - log[k].by)


(* ------------------------------ C21 ----------------------------------- *)
\* C21: for one driver instance whose cached bank starts as the device's
\* bank, every register read or write issued for a register of bank B is
\* issued while the device has bank B selected (so none is issued after a
\* failed selection of B), in every sequence of public calls, Begin after a
\* successful Begin included, with any bank-select write allowed to fail.
C21_AccessInIntendedBank == \A k \in Idx : IsBus(log[k]) => ~Misdirected(k)

\* the same for the Icm20948 alone
C21_AccessInIntendedBank48 == chip = "Icm20948" => C21_AccessInIntendedBank

\* a second Begin of an Icm20649 in SPI mode, after a Begin that returned
\* true, wrote USER_CTRL while the device had bank 2 selected
C21_Witness ==
  /\ chip = "Icm20649" /\ call = [op |-> "Begin", arg |-> 1]
  /\ log[1].k = "W" /\ log[1].reg = "USER_CTRL" /\ log[1].ok
  /\ log[1].bank = BANK_2_ /\ log[1].cb = BANK_2_


(* ------------------------------ C22 ----------------------------------- *)
\* the default configuration of each driver: accel range and scale
\* numerator, gyro range and scale numerator, accel and gyro DLPF
DefaultConfig ==
  IF chip = "Icm20649"
  THEN [ar |-> 3, as |-> 32, gr |-> 3, gs |-> 4000, ad |-> 2, gd |-> 2]
  ELSE [ar |-> 3, as |-> 16, gr |-> 3, gs |-> 2000, ad |-> 7, gd |-> 7]

\* bits [2:1] and bits [5:3] of a register byte
RangeBits(b) == (b \div 2) % 4
DlpfBits(b) == (b \div 8) % 8

SrdMirrored ==
  /\ drv.srd_ = dev.regs["ACCEL_SMPLRT_DIV_2"]
  /\ drv.srd_ = dev.regs["GYRO_SMPLRT_DIV"]

\* C23: after any ConfigSrd call that follows a Begin which returned true,
\* whether the call returns true or false, srd_ equals the value held by
\* both the accel and the gyro divider register of the device.
C23_SrdMirror ==
  [][ (call.op = "Begin" /\ ret /\ call'.op = "ConfigSrd") => SrdMirrored' ]_vars

\* the part that holds: a ConfigSrd that returns true after such a Begin
\* leaves srd_ equal to both divider registers
C23_SrdMirrorOnSuccess ==
  [][ (call.op = "Begin" /\ ret /\ call'.op = "ConfigSrd" /\ ret')
        => SrdMirrored' ]_vars

\* Begin returned true, then ConfigSrd(9) returned false with the accel
\* divider written, the gyro divider not, and srd_ still 0
C23_Witness ==
  /\ ncalls = 2 /\ call = [op |-> "ConfigSrd", arg |-> 9] /\ ~ret
  /\ drv.accel_scale_ # 0 /\ drv.gyro_scale_ # 0
  /\ drv.srd_ = 0
  /\ dev.regs["ACCEL_SMPLRT_DIV_2"] = 9 /\ dev.regs["GYRO_SMPLRT_DIV"] = 0


(* ------------------------------ C24 ----------------------------------- *)
\* C24: whenever Icm20948::Read returns false, both the new-IMU-data and
\* the new-mag-data flag are false afterwards, also when the Read before
\* it returned true with valid magnetometer data.
C24_NoStaleNewDataFlag ==
  (chip = "Icm20948" /\ call.op = "Read" /\ ~ret) =>
    (~drv.new_imu_data_ /\ ~drv.new_mag_data_)

\* the part that holds: the new-IMU-data flag is false after a Read that
\* returned false
C24_NoStaleImuFlag ==
  (chip = "Icm20948" /\ call.op = "Read" /\ ~ret) => ~drv.new_imu_data_

\* a second Read that returned false and left the new-mag-data flag of the
\* Read before it set
C24_Witness ==
  /\ chip = "Icm20948" /\ ncalls = 2 /\ call.op = "Read" /\ ~ret
  /\ ~drv.new_imu_data_ /\ drv.new_mag_data_
  /\ drv.mag_cnts_ # <<0, 0, 0>>


(* ------------------------------ C25 ----------------------------------- *)
\* slave slot 0 of the auxiliary master holds a read of the AK09916 starting
\* at ST1, enabled, of at least len bytes
SlotArmed(len) ==
  /\ dev.regs["I2C_SLV0_ADDR"] = BitOr(AK09916_I2C_ADDR_, I2C_SLV0_ADDR_READ_)
  /\ dev.regs["I2C_SLV0_REG"] = AK09916_ST1_
  /\ BitAnd(dev.regs["I2C_SLV0_CTRL"], I2C_SLV0_CTRL_EN_) # 0
  /\ dev.regs["I2C_SLV0_CTRL"] % 16 >= len

\* C25: on Icm20948, in every state between public calls after a Begin that
\* returned true, slave slot 0 is programmed as an enabled read starting at
\* AK09916 ST1 whose length covers ST1 through ST2 (Read takes ST1 from
\* data_buf_[14] and ST2 from data_buf_[22], nine bytes), also after a
\* later call that fails partway.
C25_SlotStaysArmed ==
  [][ (chip = "Icm20948" /\ call.op = "Begin" /\ ret)
        => (SlotArmed(9) /\ SlotArmed(9)') ]_vars

\* the part that holds: after a Begin that returned true the slot is an
\* enabled read of sizeof(mag_data_) bytes from ST1, and it is still so
\* after the next call unless that call is a ConfigSrd that returned false
C25_SlotArmedUnlessSrdFailed ==
  [][ (chip = "Icm20948" /\ call.op = "Begin" /\ ret)
        => /\ SlotArmed(MagDataLen)
           /\ (call'.op # "ConfigSrd" \/ ret') => SlotArmed(MagDataLen)' ]_vars

\* Begin returned true, then ConfigSrd returned false and left slot 0
\* addressed for a write
C25_Witness ==
  /\ chip = "Icm20948" /\ ncalls = 2 /\ call.op = "ConfigSrd" /\ ~ret
  /\ drv.accel_scale_ # 0 /\ drv.gyro_scale_ # 0
  /\ dev.regs["I2C_SLV0_ADDR"] = AK09916_I2C_ADDR_


(* ------------------------------ C26 ----------------------------------- *)
\* C26: the outputs of a Read that returned true are the raw counts scaled
\* and remapped by a fixed table: Icm20948 (x, y, z) = raw (y, x, -z) for
\* accel and gyro and raw (-y, x, z) for the magnetometer (when its data is
\* new), Icm20649 (x, y, z) = raw (x, -y, -z) for accel and gyro; the table
\* is the same whatever range, DLPF or divider was configured before.
C26_AxisRemap ==
  (call.op = "Read" /\ ret) =>
    LET a == drv.accel_cnts_
        g == drv.gyro_cnts_
        m == drv.mag_cnts_
        as == drv.accel_scale_
        gs == drv.gyro_scale_
    IN IF chip = "Icm20948"
       THEN /\ drv.accel_ = <<a[2] * as, a[1] * as, -(a[3] * as)>>
            /\ drv.gyro_ = <<g[2] * gs, g[1] * gs, -(g[3] * gs)>>
            /\ drv.new_mag_data_ => drv.mag_ = <<-m[2], m[1], m[3]>>
       ELSE /\ drv.accel_ = <<a[1] * as, -(a[2] * as), -(a[3] * as)>>
            /\ drv.gyro_ = <<g[1] * gs, -(g[2] * gs), -(g[3] * gs)>>

\* an Icm20948 Read after Begin that returned true with new magnetometer
\* data and three different nonzero counts on each sensor
C26_Witness ==
  /\ chip = "Icm20948" /\ ncalls = 2 /\ call.op = "Read" /\ ret
  /\ drv.accel_scale_ # 0 /\ drv.gyro_scale_ # 0 /\ drv.new_mag_data_
  /\ \A c \in {drv.accel_cnts_, drv.gyro_cnts_, drv.mag_cnts_} :
        /\ Cardinality({c[1], c[2], c[3]}) = 3
        /\ 0 \notin {c[1], c[2], c[3]}


(* ------------------------------ C27 ----------------------------------- *)
\* the bytes setFilt sent to SMPDIV
SmpdivBytes == { log[i].data : i \in { j \in Idx : log[j].reg = "SMPDIV" } }

\* C27: for every frequency in 1 .. 255 the byte setFilt writes to SMPDIV
\* equals 1000 / frequency - 1 (integer division), without wrapping modulo
\* 256.
C27_SetFiltDivider ==
  call.op = "setFilt" => SmpdivBytes = {(1000 \div call.arg[2]) - 1}

\* the part that holds: the byte is 1000 / frequency - 1 modulo 256, which is
\* the divider itself for every frequency from 4 on
C27_SetFiltDividerLowByte ==
  call.op = "setFilt" =>
    /\ SmpdivBytes = {((1000 \div call.arg[2]) - 1) % 256}
    /\ call.arg[2] >= 4 => SmpdivBytes = {(1000 \div call.arg[2]) - 1}

\* setFilt with frequency 1: 231 (999 modulo 256) reached SMPDIV
C27_Witness ==
  /\ call.op = "setFilt" /\ call.arg[2] = 1
  /\ dev.regs["SMPDIV"] = 231

(* ------------------------------ C28 ----------------------------------- *)
\* C28: for fixed output registers getMotion6Counts delivers the accel
\* counts getAccelCounts delivers and the gyro counts getGyroCounts
\* delivers: its gyro fields are the six bytes at GYRO_OUT .. GYRO_OUT + 5,
\* the two temperature bytes in between being skipped.
C28_Motion6Equivalent ==
  (call.op = "getMotion6Counts" /\ log[1].ok) =>
    \E a \in MpuGetAccelCounts(MpuStart), g \in MpuGetGyroCounts(MpuStart) :
      /\ a.log[1].ok /\ g.log[1].ok
      /\ ret = a.ret \o g.ret

\* a getMotion6Counts whose read was answered, the temperature bytes
\* differing from the gyro bytes
C28_Witness ==
  /\ call.op = "getMotion6Counts" /\ log[1].ok
  /\ SubSeq(dev.out, 7, 12) # SubSeq(dev.out, 9, 14)
  /\ ret[4] = dev.out[9] * 256 + dev.out[10]


====
